---- MODULE Spec2Model ----
(***************************************************************************)
(* Reconstruction-autoencoder anomaly detection: the scoring / decision    *)
(* paths of                                                                *)
(*   - AutoencoderAnomalyService   (backend/src/services/autoencoder_      *)
(*     service.py), the adaptive-rate-capping scorer;                      *)
(*   - RealTimeDetectionServer     (ml_training/api_server.py);            *)
(*   - RealTimeAnomalyDetector     (ml_training/deploy_model.py);          *)
(*   - ProductionServer            (ml_training/production_server.py),     *)
(*     the rule-based scorer;                                              *)
(* and the training run GridAnomalyDetector.train                          *)
(* (ml_training/reconstruction_autoencoder.py).                            *)
(* Each is modelled call by call; the service and the API server are also  *)
(* modelled statement by statement with two threads of control.            *)
(*                                                                         *)
(* The network's forward pass is abstracted to the reconstruction error    *)
(* it yields for a sample: a non-negative number that is an input of the   *)
(* scoring call.  Real-valued quantities of the adaptive service are       *)
(* fixed-point numbers in units of 1e-4 (0.4 is 4000).                     *)
(***************************************************************************)
EXTENDS Integers, Sequences, FiniteSets, TLC

VARIABLES
    program,                 \* which of the repository's programs this run is
    \* ---- AutoencoderAnomalyService -------------------------------------
    svc_model_loaded,        \* self.model_loaded
    has_recent_predictions,  \* hasattr(self, 'recent_predictions')
    recent_predictions,      \* self.recent_predictions (oldest first)
    error_cap_threshold,     \* self.error_cap_threshold (0: attribute absent)
    svc_result,              \* what the last predict_anomaly call returned
    svc_input,               \* history: the sensor_data of the last call
    svc_decisions,           \* history: every decision appended, in arrival order
    svc_calls,               \* history: number of predict_anomaly calls made
    svc_feed,                \* the synthetic stream fed to the service, if any
    \* ---- RealTimeDetectionServer (api_server.py) ------------------------
    api_phase,               \* "constructed" -> "loaded" -> "serving"
    api_model_loaded,        \* self.model_loaded
    api_detector,            \* self.detector (GridAnomalyDetector)
    api_stats,               \* self.stats
    active_connections,      \* self.active_connections
    data_stream_active,      \* self.data_stream_active
    stream_state,            \* the stream thread: "idle", "running", "finished", "crashed"
    stream_left,             \* rows of the sample the stream has not reached yet
    api_result,              \* outcome of the last scoring attempt
    api_log,                 \* history: counts of requests, attempts, verdicts, anomalous verdicts
    \* ---- RealTimeAnomalyDetector (deploy_model.py) ----------------------
    dep_phase,               \* "constructed" -> "loaded"
    is_loaded,               \* self.is_loaded
    dep_detector,            \* self.detector (GridAnomalyDetector)
    detection_stats,         \* self.detection_stats
    dep_result,              \* what the last detect_anomaly call returned
    dep_log,                 \* history: counts of calls, verdicts, anomalous verdicts
    \* ---- ProductionServer (production_server.py) -------------------------
    prod_phase,              \* "constructed" -> "serving"
    prod_model_loaded,       \* self.model_loaded
    prod_stats,              \* self.stats (total_samples, anomalies_detected)
    prod_result,             \* outcome of the last process_detection
    prod_log,                \* history: counts of calls, verdicts, anomalous verdicts
    prod_input,              \* history: the sensor_data of the last scoring call
    \* ---- main() of autoencoder_service.py --------------------------------
    main_runs,               \* history: number of invocations of the script
    main_output,             \* what the last invocation printed
    \* ---- GridAnomalyDetector.train (reconstruction_autoencoder.py) -------
    train_phase,             \* position in train(): "start", "loaded", "filtered",
                             \* "training", "saved", "failed"
    train_file,              \* rows of the CSV at normal_data_path, by label
    train_df,                \* df: rows by label
    train_split,             \* X_train / X_val: rows by label
    train_losses,            \* train_losses / val_losses, one entry per epoch
    anomalous_updates,       \* history: gradient updates taken on anomalous rows
    models_dir,              \* files save_model has written to models/
    \* ---- broadcast_detection, between its awaits (api_server.py) -------
    connection_list,         \* self.active_connections as the list it is, in order
    closed_connections,      \* websockets whose client has gone: send_text raises
    broadcasts,              \* the scoring calls inside broadcast_detection
    \* ---- callers in flight, statement by statement ---------------------
    svc_threads,             \* callers inside predict_anomaly on one service instance
    api_threads              \* threads inside RealTimeDetectionServer.process_detection

svcVars == <<svc_model_loaded, has_recent_predictions, recent_predictions,
             error_cap_threshold, svc_result, svc_input, svc_decisions, svc_calls,
             svc_feed>>

apiVars == <<api_phase, api_model_loaded, api_detector, api_stats,
             active_connections, data_stream_active, stream_state, stream_left,
             api_result, api_log>>

depVars == <<dep_phase, is_loaded, dep_detector, detection_stats, dep_result,
             dep_log>>

prodVars == <<prod_phase, prod_model_loaded, prod_stats, prod_result, prod_log,
              prod_input>>

trainVars == <<train_phase, train_file, train_df, train_split, train_losses,
               anomalous_updates, models_dir>>

mainVars == <<main_runs, main_output>>

bcastVars == <<connection_list, closed_connections, broadcasts>>

raceVars == <<svc_threads, api_threads>>

vars == <<program, svcVars, apiVars, depVars, prodVars, trainVars, mainVars, bcastVars, raceVars>>

----------------------------------------------------------------------------
\* Program constants of AutoencoderAnomalyService.predict_anomaly

\* base_threshold = 0.4
base_threshold == 4000
\* "keep last 100": len(self.recent_predictions) > 100
WindowSize == 100
\* "need minimum samples": len(self.recent_predictions) >= 20
MinSamples == 20
\* current_error_rate > 0.15, in percent
UpperRatePct == 15
\* current_error_rate < 0.10, in percent
LowerRatePct == 10
\* one, in the fixed-point unit
Unit == 10000

\* Bounds of the model
MaxCalls == 2

Criticalities == {"critical", "high", "normal"}

\* 'critical' in str(criticality).lower(): of the values drawn here only
\* "critical" contains the word "critical" and only "high" the word "high".
ContainsWord(criticality, word) == criticality = word

CriticalityThresholdHighLowest(criticality) ==
    IF ContainsWord(criticality, "critical") THEN (base_threshold * 6) \div 10
    ELSE IF ContainsWord(criticality, "high") THEN (base_threshold * 5) \div 10
    ELSE base_threshold

\* lines 142-147: the criticality-modulated base threshold
CriticalityThreshold(criticality) ==
    IF ContainsWord(criticality, "critical") THEN (base_threshold * 6) \div 10
    ELSE IF ContainsWord(criticality, "high") THEN (base_threshold * 8) \div 10
    ELSE base_threshold

ExceedsOrEqual(reconstruction_error, threshold) == reconstruction_error >= threshold

\* lines 149, 169, 174: reconstruction_error > threshold
Exceeds(reconstruction_error, threshold) == reconstruction_error > threshold

StorePredictionNoEvict(window, is_anomaly) == Append(window, is_anomaly)

StorePredictionEvictNewest(window, is_anomaly) ==
    IF Len(window) + 1 > WindowSize THEN window ELSE Append(window, is_anomaly)

\* lines 158-160: append, then pop(0) when more than 100 are held
StorePrediction(window, is_anomaly) ==
    LET appended == Append(window, is_anomaly)
    IN  IF Len(appended) > WindowSize THEN Tail(appended) ELSE appended

\* sum(self.recent_predictions)
AnomalyCount(window) == Cardinality({i \in 1..Len(window) : window[i]})

RateBandNoMinimum(window) ==
    LET n == Len(window)
        s == AnomalyCount(window)
    IN  IF s * 100 > UpperRatePct * n THEN "over"
        ELSE IF s * 100 < LowerRatePct * n THEN "under"
        ELSE "within"

RateBandInclusive(window) ==
    LET n == Len(window)
        s == AnomalyCount(window)
    IN  IF n >= MinSamples
        THEN IF s * 100 >= UpperRatePct * n THEN "over"
             ELSE IF s * 100 <= LowerRatePct * n THEN "under"
             ELSE "within"
        ELSE "warming"

\* lines 163-177: which branch the trailing anomaly rate selects
RateBand(window) ==
    LET n == Len(window)
        s == AnomalyCount(window)
    IN  IF n >= MinSamples
        THEN IF s * 100 > UpperRatePct * n THEN "over"
             ELSE IF s * 100 < LowerRatePct * n THEN "under"
             ELSE "within"
        ELSE "warming"

\* current_error_rate as reported (fixed point, truncated)
CurrentErrorRate(window) ==
    IF Len(window) >= MinSamples
    THEN (AnomalyCount(window) * Unit) \div Len(window)
    ELSE 0

AdjustedThresholdSwapped(final_threshold, band) ==
    IF band = "over" THEN (final_threshold * 95) \div 100
    ELSE IF band = "under" THEN (final_threshold * 11) \div 10
    ELSE final_threshold

\* lines 168, 173: final_threshold * 1.1 / final_threshold * 0.95
AdjustedThreshold(final_threshold, band) ==
    IF band = "over" THEN (final_threshold * 11) \div 10
    ELSE IF band = "under" THEN (final_threshold * 95) \div 100
    ELSE final_threshold

FinalDecisionStale(reconstruction_error, initial, threshold, band) == initial

\* lines 149, 169, 174: the decision is recomputed only when the threshold moved
FinalDecision(reconstruction_error, initial, threshold, band) ==
    IF band \in {"over", "under"}
    THEN Exceeds(reconstruction_error, threshold)
    ELSE initial

\* lines 180-183: confidence, fixed point
Confidence(is_anomaly, reconstruction_error, threshold) ==
    IF is_anomaly
    THEN LET c == ((reconstruction_error - threshold) * Unit) \div threshold
         IN  IF c < Unit THEN c ELSE Unit
    ELSE LET c == Unit - ((reconstruction_error * Unit) \div threshold)
         IN  IF c > Unit \div 10 THEN c ELSE Unit \div 10

\* The keys a result dict carries are listed in `keys`; a field whose key is
\* absent holds a filler value.
NoResult ==
    [kind |-> "none", keys |-> {}, is_anomaly |-> FALSE, anomaly_score |-> 0,
     reconstruction_error |-> 0, confidence |-> 0, threshold |-> 0,
     current_error_rate |-> 0, error_rate_capped |-> FALSE]

\* lines 107-114
NotLoadedResult ==
    [NoResult EXCEPT !.kind = "not_ready",
        !.keys = {"is_anomaly", "anomaly_score", "reconstruction_error",
                  "confidence", "error"}]

\* lines 198-212
ErrorResult ==
    [NoResult EXCEPT !.kind = "error",
        !.keys = {"is_anomaly", "anomaly_score", "reconstruction_error",
                  "confidence", "current_error_rate", "error_rate_capped",
                  "threshold", "base_threshold", "model_type",
                  "sensitivity_level", "error", "error_details"}]

VerdictKeys ==
    {"is_anomaly", "anomaly_score", "reconstruction_error", "confidence",
     "threshold", "base_threshold", "current_error_rate", "error_rate_capped",
     "model_type", "sensitivity_level"}

\* The state an instance keeps between calls.
FreshWindowState ==
    [has |-> FALSE, window |-> <<>>, cap |-> 0, decisions |-> <<>>]

ScoreCompounding(st, reconstruction_error, criticality) ==
    LET final_threshold == CriticalityThreshold(criticality)
        initial == Exceeds(reconstruction_error, final_threshold)
        \* lines 153-155: lazy creation
        window0 == IF st.has THEN st.window ELSE <<>>
        cap0 == IF st.has THEN st.cap ELSE final_threshold
        window1 == StorePrediction(window0, initial)
        band == RateBand(window1)
        threshold == AdjustedThreshold(cap0, band)
        cap1 == IF band \in {"over", "under"} THEN threshold ELSE cap0
        is_anomaly == FinalDecision(reconstruction_error, initial, threshold, band)
    IN  [state |-> [has |-> TRUE, window |-> window1, cap |-> cap1,
                    decisions |-> Append(st.decisions, initial)],
         result |-> [kind |-> "verdict", keys |-> VerdictKeys,
                     is_anomaly |-> is_anomaly,
                     anomaly_score |-> reconstruction_error,
                     reconstruction_error |-> reconstruction_error,
                     confidence |-> Confidence(is_anomaly, reconstruction_error, threshold),
                     threshold |-> threshold,
                     current_error_rate |-> CurrentErrorRate(window1),
                     error_rate_capped |-> (band = "over")],
         initial |-> initial, band |-> band, base |-> final_threshold]

\* lines 133-196: one successful scoring call against window state st.
\* Returns the state after the call and the dict returned.
Score(st, reconstruction_error, criticality) ==
    LET final_threshold == CriticalityThreshold(criticality)
        initial == Exceeds(reconstruction_error, final_threshold)
        \* lines 153-155: lazy creation
        window0 == IF st.has THEN st.window ELSE <<>>
        cap0 == IF st.has THEN st.cap ELSE final_threshold
        window1 == StorePrediction(window0, initial)
        band == RateBand(window1)
        threshold == AdjustedThreshold(final_threshold, band)
        cap1 == IF band \in {"over", "under"} THEN threshold ELSE cap0
        is_anomaly == FinalDecision(reconstruction_error, initial, threshold, band)
    IN  [state |-> [has |-> TRUE, window |-> window1, cap |-> cap1,
                    decisions |-> Append(st.decisions, initial)],
         result |-> [kind |-> "verdict", keys |-> VerdictKeys,
                     is_anomaly |-> is_anomaly,
                     anomaly_score |-> reconstruction_error,
                     reconstruction_error |-> reconstruction_error,
                     confidence |-> Confidence(is_anomaly, reconstruction_error, threshold),
                     threshold |-> threshold,
                     current_error_rate |-> CurrentErrorRate(window1),
                     error_rate_capped |-> (band = "over")],
         initial |-> initial, band |-> band, base |-> final_threshold]

\* Reconstruction errors drawn for a call with the given criticality: at and
\* just above each threshold the call can use, zero, and far above.
ErrorsFor(criticality) ==
    LET b == CriticalityThreshold(criticality)
    IN  {0, 3 * b} \cup
        UNION {{t, t + 1} : t \in {AdjustedThreshold(b, "under"), b,
                                   AdjustedThreshold(b, "over")}}

\* sensor_data as the call sees it: ok = FALSE is a record on which feature
\* extraction, scaling or the forward pass raises (lines 116-131).
SensorInputs ==
    UNION {{[ok |-> TRUE, criticality |-> c, reconstruction_error |-> e] :
                e \in ErrorsFor(c)} : c \in Criticalities} \cup
    {[ok |-> FALSE, criticality |-> "normal", reconstruction_error |-> 0]}

\* callers that can be inside predict_anomaly of one instance at once
Callers == {"caller1", "caller2"}

IdleCaller ==
    [pc |-> "idle", reconstruction_error |-> 0, final_threshold |-> 0,
     is_anomaly |-> FALSE, position |-> 0, n |-> 0, current_error_rate |-> 0,
     band |-> "warming", length_at_return |-> 0]

NoCallers == [c \in Callers |-> IdleCaller]

\* no synthetic stream is attached to the service
NoFeed == [criticality |-> "none", high_error |-> 0, phase |-> 0]

NoInput == [ok |-> FALSE, criticality |-> "none", reconstruction_error |-> 0]

CurrentWindowState ==
    [has |-> has_recent_predictions, window |-> recent_predictions,
     cap |-> error_cap_threshold, decisions |-> svc_decisions]

\* lines 106-212: AutoencoderAnomalyService.predict_anomaly
PredictAnomalyCall(sensor_data) ==
    /\ svc_calls' = svc_calls + 1
    /\ svc_input' = sensor_data
    /\ UNCHANGED <<svc_model_loaded, svc_feed>>
    /\ IF ~svc_model_loaded
       THEN /\ svc_result' = NotLoadedResult
            /\ UNCHANGED <<has_recent_predictions, recent_predictions,
                           error_cap_threshold, svc_decisions>>
       ELSE IF ~sensor_data.ok
       THEN /\ svc_result' = ErrorResult
            /\ UNCHANGED <<has_recent_predictions, recent_predictions,
                           error_cap_threshold, svc_decisions>>
       ELSE LET r == Score(CurrentWindowState, sensor_data.reconstruction_error,
                           sensor_data.criticality)
            IN  /\ svc_result' = r.result
                /\ has_recent_predictions' = r.state.has
                /\ recent_predictions' = r.state.window
                /\ error_cap_threshold' = r.state.cap
                /\ svc_decisions' = r.state.decisions

\* a caller scores one record
PredictAnomaly(sensor_data) ==
    /\ program = "svc"
    /\ svc_calls < MaxCalls
    /\ PredictAnomalyCall(sensor_data)

----------------------------------------------------------------------------
\* Histories the service can have behind it when observation starts: n earlier
\* calls (criticality "normal"), a of them scored above the base threshold,
\* either first or last.  Each such state is computed by replaying Score.

\* Score folded over errors[lo..hi], oldest first (by halves, which keeps
\* the evaluation shallow)
RECURSIVE ReplayRange(_, _, _, _)
ReplayRange(st, errors, lo, hi) ==
    IF lo > hi THEN st
    ELSE IF lo = hi THEN Score(st, errors[lo], "normal").state
    ELSE LET mid == (lo + hi) \div 2
             left == ReplayRange(st, errors, lo, mid)
         IN  IF left.has THEN ReplayRange(left, errors, mid + 1, hi) ELSE left

Replay(st, errors) == ReplayRange(st, errors, 1, Len(errors))

WarmStream(n, a, anomalies_first) ==
    [i \in 1..n |->
        IF (anomalies_first /\ i <= a) \/ (~anomalies_first /\ i > n - a)
        THEN base_threshold + 1 ELSE 0]

WarmLengths ==
    {0, MinSamples - 1, MinSamples, WindowSize - 1, WindowSize}

\* anomaly counts at the ends and around the [10%, 15%] band
WarmCounts(n) ==
    {a \in 0..n : \/ a = 0
                  \/ a = n
                  \/ (a * 100 >= LowerRatePct * n - 100 /\ a * 100 <= UpperRatePct * n + 100)}

SvcInit ==
    /\ svc_model_loaded \in BOOLEAN
    /\ \E n \in WarmLengths : \E a \in WarmCounts(n) : \E first \in BOOLEAN :
        LET st == Replay(FreshWindowState, WarmStream(n, a, first))
        IN  /\ (~svc_model_loaded => n = 0)
            /\ has_recent_predictions = st.has
            /\ recent_predictions = st.window
            /\ error_cap_threshold = st.cap
            /\ svc_decisions = st.decisions
    /\ svc_result = NoResult
    /\ svc_input = NoInput
    /\ svc_calls = 0
    /\ svc_feed = NoFeed

\* the service of a run that is another program
SvcIdle ==
    /\ svc_model_loaded = FALSE
    /\ has_recent_predictions = FALSE
    /\ recent_predictions = <<>>
    /\ error_cap_threshold = 0
    /\ svc_decisions = <<>>
    /\ svc_result = NoResult
    /\ svc_input = NoInput
    /\ svc_calls = 0
    /\ svc_feed = NoFeed

SvcNext == \E sensor_data \in SensorInputs : PredictAnomaly(sensor_data)

----------------------------------------------------------------------------
\* main() of autoencoder_service.py (lines 214-226): the script is started
\* once per sample; each start is a new process with a new service.

\* Bound of the model: invocations of the script
MaxInvocations == 3

\* sys.argv: no argument, an argument json.loads rejects, or a record
Arguments ==
    {[given |-> FALSE, parses |-> FALSE, sensor_data |-> NoInput],
     [given |-> TRUE, parses |-> FALSE, sensor_data |-> NoInput]} \cup
    {[given |-> TRUE, parses |-> TRUE, sensor_data |-> sd] : sd \in SensorInputs}

\* the script has not been started
MainInit ==
    /\ main_runs = 0
    /\ main_output = "none"

MainSharedService(argv, loaded) ==
    /\ program = "main"
    /\ main_runs < MaxInvocations
    /\ main_runs' = main_runs + 1
    /\ UNCHANGED svc_feed
    /\ IF ~argv.given \/ ~argv.parses
       THEN /\ main_output' = "error"
            /\ UNCHANGED <<svc_model_loaded, has_recent_predictions,
                           recent_predictions, error_cap_threshold, svc_result,
                           svc_input, svc_decisions, svc_calls>>
       ELSE /\ main_output' = "result"
            /\ svc_model_loaded' = loaded
            /\ svc_calls' = svc_calls + 1
            /\ svc_input' = argv.sensor_data
            /\ IF ~loaded \/ ~argv.sensor_data.ok
               THEN /\ svc_result' = IF ~loaded THEN NotLoadedResult ELSE ErrorResult
                    /\ UNCHANGED <<has_recent_predictions, recent_predictions,
                                   error_cap_threshold, svc_decisions>>
               ELSE LET r == Score(CurrentWindowState,
                                   argv.sensor_data.reconstruction_error,
                                   argv.sensor_data.criticality)
                    IN  /\ svc_result' = r.result
                        /\ has_recent_predictions' = r.state.has
                        /\ recent_predictions' = r.state.window
                        /\ error_cap_threshold' = r.state.cap
                        /\ svc_decisions' = r.state.decisions

\* lines 214-226: one invocation.  loaded = FALSE: load_model of the new
\* service fails (lines 64-84).  The service variables describe the service
\* of the process that ran last; without a parsed argument there is none.
Main(argv, loaded) ==
    /\ program = "main"
    /\ main_runs < MaxInvocations
    /\ main_runs' = main_runs + 1
    /\ UNCHANGED svc_feed
    /\ IF ~argv.given \/ ~argv.parses
       THEN /\ main_output' = "error"
            /\ svc_model_loaded' = FALSE
            /\ has_recent_predictions' = FALSE
            /\ recent_predictions' = <<>>
            /\ error_cap_threshold' = 0
            /\ svc_decisions' = <<>>
            /\ svc_result' = NoResult
            /\ svc_input' = NoInput
            /\ svc_calls' = 0
       ELSE /\ main_output' = "result"
            /\ svc_model_loaded' = loaded
            /\ svc_calls' = 1
            /\ svc_input' = argv.sensor_data
            /\ IF ~loaded \/ ~argv.sensor_data.ok
               THEN /\ svc_result' = IF ~loaded THEN NotLoadedResult ELSE ErrorResult
                    /\ has_recent_predictions' = FALSE
                    /\ recent_predictions' = <<>>
                    /\ error_cap_threshold' = 0
                    /\ svc_decisions' = <<>>
               ELSE LET r == Score(FreshWindowState,
                                   argv.sensor_data.reconstruction_error,
                                   argv.sensor_data.criticality)
                    IN  /\ svc_result' = r.result
                        /\ has_recent_predictions' = r.state.has
                        /\ recent_predictions' = r.state.window
                        /\ error_cap_threshold' = r.state.cap
                        /\ svc_decisions' = r.state.decisions

MainNext == \E argv \in Arguments, loaded \in BOOLEAN : Main(argv, loaded)

----------------------------------------------------------------------------
\* A synthetic stream in which 3 samples of every 10 are flagged: sample i is
\* anomalous when (i + phase) % 10 < 3, with a reconstruction error high_error
\* above the base threshold and above the raised one (so the first decision
\* of line 149 and the returned verdict agree); the others reconstruct exactly.

Feeds ==
    UNION {{[criticality |-> c, high_error |-> e, phase |-> ph] :
                e \in {AdjustedThreshold(CriticalityThreshold(c), "over") + 1,
                       3 * CriticalityThreshold(c)},
                ph \in 0..9} : c \in Criticalities}

FeedLength == WindowSize

FeedSample(feed, i) ==
    [ok |-> TRUE, criticality |-> feed.criticality,
     reconstruction_error |-> IF (i + feed.phase) % 10 < 3 THEN feed.high_error ELSE 0]

\* AutoencoderAnomalyService.__init__ with the model files present, then the stream
FeedInit ==
    /\ svc_model_loaded = TRUE
    /\ has_recent_predictions = FALSE
    /\ recent_predictions = <<>>
    /\ error_cap_threshold = 0
    /\ svc_decisions = <<>>
    /\ svc_result = NoResult
    /\ svc_input = NoInput
    /\ svc_calls = 0
    /\ svc_feed \in Feeds

\* the next sample of the stream is scored
FeedCall ==
    /\ program = "feed"
    /\ svc_calls < FeedLength
    /\ PredictAnomalyCall(FeedSample(svc_feed, svc_calls + 1))

----------------------------------------------------------------------------
\* GridAnomalyDetector (reconstruction_autoencoder.py) as the servers use it.
\* The calibrated threshold and the reconstruction errors of this detector
\* are whole numbers of an arbitrary unit.

\* Bounds of the model
MaxThreshold == 2
MaxRows == 2
MaxRequests == 2

\* df.sample(n=min(1000, len(df)))
StreamSampleCap == 1000

\* values of the categorical fields of a record: in the vocabulary the
\* persisted encoders were fitted on, or not
TrainedClasses == {"GENERATOR_UNIT_001"}

Connections == {"ws1"}

\* GridAnomalyDetector.__init__: reconstruction_threshold 0 stands for None
FreshDetector ==
    [scaler |-> "unfitted",
     label_encoders |-> [fitted |-> FALSE, classes |-> {}],
     feature_columns |-> FALSE,
     reconstruction_threshold |-> 0,
     autoencoder |-> "none"]

\* The steps of load_model in source order; fail_at = 0: none raises,
\* fail_at = k: step k raises and the steps before it have taken effect.
\*   1 scaler  2 label_encoders  3 feature_columns  4 reconstruction_threshold
\*   5 construct the network  6 torch.load / load_state_dict
LoadFailures == 0..6

StepDone(fail_at, k) == fail_at = 0 \/ fail_at > k

\* api_server.py lines 90-99: the detector after load_model
LoadComponents(d, fail_at, persisted_threshold) ==
    [scaler |-> IF StepDone(fail_at, 1) THEN "fitted" ELSE d.scaler,
     label_encoders |->
        IF StepDone(fail_at, 2)
        THEN [fitted |-> TRUE, classes |-> TrainedClasses]
        ELSE d.label_encoders,
     feature_columns |-> IF StepDone(fail_at, 3) THEN TRUE ELSE d.feature_columns,
     reconstruction_threshold |->
        IF StepDone(fail_at, 4) THEN persisted_threshold
        ELSE d.reconstruction_threshold,
     autoencoder |->
        IF StepDone(fail_at, 6) THEN "trained"
        ELSE IF StepDone(fail_at, 5) THEN "untrained"
        ELSE d.autoencoder]

LoadedFlagAlways(fail_at) == TRUE

\* api_server.py lines 101, 105-107: the flag load_model leaves
LoadedFlag(fail_at) == fail_at = 0

\* reconstruction_autoencoder.py lines 133-143: encode the categorical fields
PrepareFeatures(d, sample) ==
    IF ~d.label_encoders.fitted
    THEN [raised |-> FALSE,
          detector |-> [d EXCEPT
              !.label_encoders = [fitted |-> TRUE, classes |-> {sample.category}],
              !.feature_columns = TRUE]]
    ELSE IF sample.category \in d.label_encoders.classes
    THEN [raised |-> FALSE, detector |-> [d EXCEPT !.feature_columns = TRUE]]
    ELSE [raised |-> TRUE, detector |-> d]

\* StandardScaler.transform raises NotFittedError before fit / load
ScalerTransformRaises(d) == d.scaler = "unfitted"

\* detect_anomalies raises on a missing network or threshold
DetectAnomaliesRaises(d) ==
    d.autoencoder = "none" \/ d.reconstruction_threshold = 0

PredictionAtLeast(reconstruction_error, threshold) == reconstruction_error >= threshold

\* reconstruction_autoencoder.py line 298
Prediction(reconstruction_error, threshold) == reconstruction_error > threshold

\* reconstruction_autoencoder.py line 297, fixed point
AnomalyScore(reconstruction_error, threshold) ==
    (reconstruction_error * Unit) \div threshold

ThreatLevelInclusive(is_anomaly, reconstruction_error, threshold) ==
    IF is_anomaly
    THEN IF reconstruction_error >= 10 * threshold THEN "CRITICAL"
         ELSE IF reconstruction_error >= 5 * threshold THEN "HIGH"
         ELSE IF reconstruction_error >= 2 * threshold THEN "MEDIUM"
         ELSE "LOW"
    ELSE "NORMAL"

\* api_server.py lines 231-242: error_ratio = error / threshold against 10, 5, 2
ThreatLevel(is_anomaly, reconstruction_error, threshold) ==
    IF is_anomaly
    THEN IF reconstruction_error > 10 * threshold THEN "CRITICAL"
         ELSE IF reconstruction_error > 5 * threshold THEN "HIGH"
         ELSE IF reconstruction_error > 2 * threshold THEN "MEDIUM"
         ELSE "LOW"
    ELSE "NORMAL"

\* api_server.py line 257: min(anomaly_score, 10.0) / 10.0, fixed point
ApiConfidence(anomaly_score) ==
    (IF anomaly_score < 10 * Unit THEN anomaly_score ELSE 10 * Unit) \div 10

\* api_server.py lines 60-65
FreshStats ==
    [total_samples |-> 0, anomalies_detected |-> 0,
     last_detection_time |-> 0, current_threat_level |-> "NORMAL"]

\* api_server.py lines 120-129: the anomaly_rate of GET /stats, in percent,
\* fixed point
ApiAnomalyRate(stats) ==
    (stats.anomalies_detected * 100 * Unit) \div
        (IF stats.total_samples > 1 THEN stats.total_samples ELSE 1)

ApiNoResult ==
    [kind |-> "none", via |-> "none", status |-> 0, isAnomaly |-> FALSE,
     anomalyScore |-> 0, reconstructionError |-> 0, threshold |-> 0,
     confidence |-> 0, threatLevel |-> "NORMAL", sent |-> {}]

UpdateStatsUncounted(stats, is_anomaly, threat_level, now) ==
    [stats EXCEPT !.current_threat_level = threat_level]

\* api_server.py lines 245-249
UpdateStats(stats, is_anomaly, threat_level, now) ==
    [total_samples |-> stats.total_samples + 1,
     anomalies_detected |-> stats.anomalies_detected + (IF is_anomaly THEN 1 ELSE 0),
     last_detection_time |-> IF is_anomaly THEN now ELSE stats.last_detection_time,
     current_threat_level |-> threat_level]

\* api_server.py lines 271-285: failing is the set of connections whose send
\* raises; they are removed after the loop.
BroadcastDetection(connections, failing) ==
    [sent |-> connections \ failing, connections |-> connections \ failing]

\* api_server.py lines 184-269: process_detection.  raised = TRUE is the
\* re-raise of line 269; the detector may already have been changed by then.
ProcessDetection(d, stats, connections, sample, now, failing) ==
    LET pf == PrepareFeatures(d, sample)
        d1 == pf.detector
        threshold == d1.reconstruction_threshold
        reconstruction_error == sample.reconstruction_error
        is_anomaly == Prediction(reconstruction_error, threshold)
        threat_level == ThreatLevel(is_anomaly, reconstruction_error, threshold)
        anomaly_score == AnomalyScore(reconstruction_error, threshold)
        bc == BroadcastDetection(connections, failing \cap connections)
    IN  IF pf.raised \/ ScalerTransformRaises(d1) \/ DetectAnomaliesRaises(d1)
        THEN [raised |-> TRUE, detector |-> d1, stats |-> stats,
              connections |-> connections, sent |-> {}, result |-> ApiNoResult]
        ELSE [raised |-> FALSE, detector |-> d1,
              stats |-> UpdateStats(stats, is_anomaly, threat_level, now),
              connections |-> bc.connections, sent |-> bc.sent,
              result |-> [kind |-> "verdict", via |-> "none", status |-> 200,
                          isAnomaly |-> is_anomaly,
                          anomalyScore |-> anomaly_score,
                          reconstructionError |-> reconstruction_error,
                          threshold |-> threshold,
                          confidence |-> ApiConfidence(anomaly_score),
                          threatLevel |-> threat_level,
                          sent |-> bc.sent]]

\* Reconstruction errors at and just above the band edges of a threshold
ErrorsAt(threshold) ==
    {0} \cup UNION {{k * threshold, k * threshold + 1} : k \in {1, 2, 5, 10}}

\* Records the endpoints and the stream score: a categorical value outside
\* the trained vocabulary, or a known one with the reconstruction error the
\* loaded network yields for it.
ApiSamples ==
    {[category |-> "ROGUE_DEVICE_999", reconstruction_error |-> 0]} \cup
    {[category |-> "GENERATOR_UNIT_001", reconstruction_error |-> e] :
        e \in ErrorsAt(IF api_detector.reconstruction_threshold = 0 THEN 1
                       ELSE api_detector.reconstruction_threshold)}

Threads == {"loop", "stream"}

IdleThread ==
    [pc |-> "idle", reconstruction_error |-> 0, is_anomaly |-> FALSE,
     threat_level |-> "NORMAL", loaded |-> 0]

FreshLog == [requests |-> 0, attempts |-> 0, verdicts |-> 0, anomalies |-> 0]

\* history bookkeeping for one scoring attempt with outcome r
Logged(log, r, is_request) ==
    [requests |-> log.requests + (IF is_request THEN 1 ELSE 0),
     attempts |-> log.attempts + 1,
     verdicts |-> log.verdicts + (IF r.raised THEN 0 ELSE 1),
     anomalies |-> log.anomalies + (IF ~r.raised /\ r.result.isAnomaly THEN 1 ELSE 0)]

ApiNow == api_log.attempts + 1

\* api_server.py lines 50-69, up to the call of load_model
ApiInit ==
    /\ api_phase = "constructed"
    /\ api_model_loaded = FALSE
    /\ api_detector = FreshDetector
    /\ api_stats = FreshStats
    /\ active_connections = {}
    /\ data_stream_active = FALSE
    /\ stream_state = "idle"
    /\ stream_left = 0
    /\ api_result = ApiNoResult
    /\ api_log = FreshLog
    /\ api_threads = [t \in Threads |-> IdleThread]

\* api_server.py lines 81-107: load_model, called once by __init__
ApiLoadModel(fail_at, persisted_threshold) ==
    /\ program = "api"
    /\ api_phase = "constructed"
    /\ api_phase' = "loaded"
    /\ api_detector' = LoadComponents(api_detector, fail_at, persisted_threshold)
    /\ api_model_loaded' = LoadedFlag(fail_at)
    /\ UNCHANGED <<api_stats, active_connections, data_stream_active,
                   stream_state, stream_left, api_result, api_log>>

\* api_server.py lines 438-453 and 401-409: run() starts the stream thread,
\* which reads the CSV (read_ok = FALSE: read_csv raises) and samples it.
ApiRun(read_ok, csv_rows) ==
    /\ program = "api"
    /\ api_phase = "loaded"
    /\ api_phase' = "serving"
    /\ IF read_ok
       THEN /\ data_stream_active' = TRUE
            /\ stream_state' = "running"
            /\ stream_left' = IF csv_rows < StreamSampleCap THEN csv_rows
                              ELSE StreamSampleCap
       ELSE /\ stream_state' = "crashed"
            /\ UNCHANGED <<data_stream_active, stream_left>>
    /\ UNCHANGED <<api_model_loaded, api_detector, api_stats,
                   active_connections, api_result, api_log>>

\* api_server.py lines 411-433: one row of the stream
StreamSample(sample, failing) ==
    /\ program = "api"
    /\ stream_state = "running"
    /\ stream_left > 0
    /\ LET r == ProcessDetection(api_detector, api_stats, active_connections,
                                 sample, ApiNow, failing)
       IN  /\ api_detector' = r.detector
           /\ api_stats' = r.stats
           /\ active_connections' = r.connections
           /\ api_log' = Logged(api_log, r, FALSE)
           /\ IF r.raised
              THEN /\ stream_state' = "crashed"
                   /\ api_result' = [ApiNoResult EXCEPT !.kind = "raised",
                                                        !.via = "stream"]
                   /\ UNCHANGED stream_left
              ELSE /\ stream_left' = stream_left - 1
                   /\ api_result' = [r.result EXCEPT !.via = "stream"]
                   /\ UNCHANGED stream_state
    /\ UNCHANGED <<api_phase, api_model_loaded, data_stream_active>>

\* the for loop of stream_data runs out of rows
StreamEnd ==
    /\ program = "api"
    /\ stream_state = "running"
    /\ stream_left = 0
    /\ stream_state' = "finished"
    /\ UNCHANGED <<api_phase, api_model_loaded, api_detector, api_stats,
                   active_connections, data_stream_active, stream_left,
                   api_result, api_log>>

\* api_server.py lines 131-140: POST /detect
Detect(sample, failing) ==
    /\ program = "api"
    /\ api_phase = "serving"
    /\ api_log.requests < MaxRequests
    /\ IF ~api_model_loaded
       THEN /\ api_result' = [ApiNoResult EXCEPT !.kind = "http_error",
                                                 !.via = "detect", !.status = 503]
            /\ api_log' = [api_log EXCEPT !.requests = @ + 1]
            /\ UNCHANGED <<api_detector, api_stats, active_connections>>
       ELSE LET r == ProcessDetection(api_detector, api_stats, active_connections,
                                      sample, ApiNow, failing)
            IN  /\ api_detector' = r.detector
                /\ api_stats' = r.stats
                /\ active_connections' = r.connections
                /\ api_log' = Logged(api_log, r, TRUE)
                /\ api_result' =
                      IF r.raised
                      THEN [ApiNoResult EXCEPT !.kind = "http_error",
                                               !.via = "detect", !.status = 500]
                      ELSE [r.result EXCEPT !.via = "detect"]
    /\ UNCHANGED <<api_phase, api_model_loaded, data_stream_active,
                   stream_state, stream_left>>

\* api_server.py lines 171-174: a client connects
WsConnect(c) ==
    /\ program = "api"
    /\ api_phase = "serving"
    /\ c \notin active_connections
    /\ active_connections' = active_connections \cup {c}
    /\ UNCHANGED <<api_phase, api_model_loaded, api_detector, api_stats,
                   data_stream_active, stream_state, stream_left, api_result,
                   api_log>>

\* api_server.py lines 181-182: a client disconnects
WsDisconnect(c) ==
    /\ program = "api"
    /\ c \in active_connections
    /\ active_connections' = active_connections \ {c}
    /\ UNCHANGED <<api_phase, api_model_loaded, api_detector, api_stats,
                   data_stream_active, stream_state, stream_left, api_result,
                   api_log>>

ApiNext ==
    \/ \E f \in LoadFailures, t \in 1..MaxThreshold : ApiLoadModel(f, t)
    \/ \E ok \in BOOLEAN, n \in 0..MaxRows : ApiRun(ok, n)
    \/ \E sample \in ApiSamples, failing \in SUBSET Connections :
          StreamSample(sample, failing)
    \/ StreamEnd
    \/ \E sample \in ApiSamples, failing \in SUBSET Connections :
          Detect(sample, failing)
    \/ \E c \in Connections : WsConnect(c)
    \/ \E c \in Connections : WsDisconnect(c)

----------------------------------------------------------------------------
\* RealTimeAnomalyDetector (deploy_model.py)

\* deploy_model.py lines 26-31
FreshDetectionStats ==
    [total_samples |-> 0, anomalies_detected |-> 0,
     last_detection_time |-> 0, current_threat_level |-> "LOW"]

\* deploy_model.py lines 155-167: the anomaly_rate of get_stats, in percent,
\* fixed point
DepAnomalyRate(stats) ==
    IF stats.total_samples > 0
    THEN (stats.anomalies_detected * 100 * Unit) \div stats.total_samples
    ELSE 0

DepNoResult ==
    [kind |-> "none", keys |-> {}, is_anomaly |-> FALSE, anomaly_score |-> 0,
     reconstruction_error |-> 0, threshold |-> 0, confidence |-> 0,
     threat_level |-> "NORMAL"]

\* deploy_model.py line 65: {'error': 'Model not loaded'}
DepNotLoadedResult ==
    [DepNoResult EXCEPT !.kind = "not_ready", !.keys = {"error"}]

\* deploy_model.py line 153: {'error': 'Detection failed: ...'}
DepErrorResult ==
    [DepNoResult EXCEPT !.kind = "error", !.keys = {"error"}]

DepVerdictKeys ==
    {"timestamp", "is_anomaly", "anomaly_score", "reconstruction_error",
     "threshold", "confidence", "threat_level", "sensor_data"}

DepThreatLevelInclusive(reconstruction_error, threshold) ==
    IF reconstruction_error >= 10 * threshold THEN "CRITICAL"
    ELSE IF reconstruction_error >= 5 * threshold THEN "HIGH"
    ELSE IF reconstruction_error >= 2 * threshold THEN "MEDIUM"
    ELSE "LOW"

\* deploy_model.py lines 127-135: the threat level of an anomalous sample
DepThreatLevel(reconstruction_error, threshold) ==
    IF reconstruction_error > 10 * threshold THEN "CRITICAL"
    ELSE IF reconstruction_error > 5 * threshold THEN "HIGH"
    ELSE IF reconstruction_error > 2 * threshold THEN "MEDIUM"
    ELSE "LOW"

\* deploy_model.py lines 118-137
DepUpdateStats(stats, is_anomaly, reconstruction_error, threshold, now) ==
    IF is_anomaly
    THEN [total_samples |-> stats.total_samples + 1,
          anomalies_detected |-> stats.anomalies_detected + 1,
          last_detection_time |-> now,
          current_threat_level |-> DepThreatLevel(reconstruction_error, threshold)]
    ELSE [stats EXCEPT !.total_samples = @ + 1]

\* deploy_model.py lines 67-153: the body of detect_anomaly once loaded
DepProcess(d, stats, sample, now) ==
    LET pf == PrepareFeatures(d, sample)
        d1 == pf.detector
        threshold == d1.reconstruction_threshold
        reconstruction_error == sample.reconstruction_error
        is_anomaly == Prediction(reconstruction_error, threshold)
        anomaly_score == AnomalyScore(reconstruction_error, threshold)
        stats1 == DepUpdateStats(stats, is_anomaly, reconstruction_error,
                                 threshold, now)
    IN  IF pf.raised \/ ScalerTransformRaises(d1) \/ DetectAnomaliesRaises(d1)
        THEN [raised |-> TRUE, detector |-> d1, stats |-> stats,
              result |-> DepErrorResult]
        ELSE [raised |-> FALSE, detector |-> d1, stats |-> stats1,
              result |-> [kind |-> "verdict", keys |-> DepVerdictKeys,
                          is_anomaly |-> is_anomaly,
                          anomaly_score |-> anomaly_score,
                          reconstruction_error |-> reconstruction_error,
                          threshold |-> threshold,
                          confidence |-> ApiConfidence(anomaly_score),
                          threat_level |-> IF is_anomaly
                                           THEN stats1.current_threat_level
                                           ELSE "NORMAL"]]

DepSamples ==
    {[category |-> "ROGUE_DEVICE_999", reconstruction_error |-> 0]} \cup
    {[category |-> "GENERATOR_UNIT_001", reconstruction_error |-> e] :
        e \in ErrorsAt(IF dep_detector.reconstruction_threshold = 0 THEN 1
                       ELSE dep_detector.reconstruction_threshold)}

FreshDepLog == [calls |-> 0, verdicts |-> 0, anomalies |-> 0]

\* deploy_model.py lines 23-31
DepInit ==
    /\ dep_phase = "constructed"
    /\ is_loaded = FALSE
    /\ dep_detector = FreshDetector
    /\ detection_stats = FreshDetectionStats
    /\ dep_result = DepNoResult
    /\ dep_log = FreshDepLog

\* deploy_model.py lines 33-60: load_model, called by main()
DepLoadModel(fail_at, persisted_threshold) ==
    /\ program = "flask"
    /\ dep_phase = "constructed"
    /\ dep_phase' = "loaded"
    /\ dep_detector' = LoadComponents(dep_detector, fail_at, persisted_threshold)
    /\ is_loaded' = LoadedFlag(fail_at)
    /\ UNCHANGED <<detection_stats, dep_result, dep_log>>

\* deploy_model.py lines 62-153: detect_anomaly
DepDetectAnomaly(sample) ==
    /\ program = "flask"
    /\ dep_log.calls < MaxRequests
    /\ IF ~is_loaded
       THEN /\ dep_result' = DepNotLoadedResult
            /\ dep_log' = [dep_log EXCEPT !.calls = @ + 1]
            /\ UNCHANGED <<dep_detector, detection_stats>>
       ELSE LET r == DepProcess(dep_detector, detection_stats, sample,
                                dep_log.calls + 1)
            IN  /\ dep_result' = r.result
                /\ dep_detector' = r.detector
                /\ detection_stats' = r.stats
                /\ dep_log' =
                      [calls |-> dep_log.calls + 1,
                       verdicts |-> dep_log.verdicts + (IF r.raised THEN 0 ELSE 1),
                       anomalies |-> dep_log.anomalies +
                          (IF ~r.raised /\ r.result.is_anomaly THEN 1 ELSE 0)]
    /\ UNCHANGED <<dep_phase, is_loaded>>

DepNext ==
    \/ \E f \in LoadFailures, t \in 1..MaxThreshold : DepLoadModel(f, t)
    \/ \E sample \in DepSamples : DepDetectAnomaly(sample)

----------------------------------------------------------------------------
\* ProductionServer (production_server.py): rule-based process_detection.
\* sensor_value and nominal_value are whole numbers; derived reals are
\* fixed-point numbers in units of 1e-3.

\* Bound of the model
MaxProdCalls == 2

\* demo_threshold = 0.5
demo_threshold == 500

SensorNames == {"voltage", "power", "frequency", "current"}

ProdCriticalities == {"critical", "high", "normal"}

\* one, in the fixed-point unit of this server (1e-3)
ProdUnit == 1000

\* <<sensor_value, nominal_value>>: at the nominal, 41%, 50% and 51% away
\* from it, zero, a zero and a negative nominal, outside 58..62, above
\* the 400 kV and 800 kW limits, and the 345 kV line at its nominal
Readings ==
    {<<100, 100>>, <<59, 100>>, <<150, 100>>, <<151, 100>>, <<0, 100>>,
     <<0, 0>>, <<100, 0>>, <<100, 0 - 100>>, <<57, 60>>,
     <<400001, 345000>>, <<800001, 700000>>, <<345000, 345000>>}

ProdRequests ==
    {[sensor_name |-> name, criticality |-> c,
      sensor_value |-> reading[1], nominal_value |-> reading[2]] :
        name \in SensorNames, c \in ProdCriticalities, reading \in Readings}

Abs(x) == IF x < 0 THEN 0 - x ELSE x

\* production_server.py line 226: abs(sensor_value - nominal_value) / nominal_value * 100,
\* for nominal_value # 0
DeviationPercent(sensor_value, nominal_value) ==
    LET a == Abs(sensor_value - nominal_value) * 100
        m == Abs(nominal_value)
        q == (a \div m) * ProdUnit + ((a % m) * ProdUnit) \div m
    IN  IF nominal_value > 0 THEN q ELSE 0 - q

\* the same quantity against a whole number of percent, exactly
DeviationAbove(sensor_value, nominal_value, percent) ==
    IF nominal_value > 0
    THEN Abs(sensor_value - nominal_value) * 100 > percent * nominal_value
    ELSE Abs(sensor_value - nominal_value) * 100 < percent * nominal_value

\* production_server.py lines 232-263: the attack rules
IsAttackData(sd) ==
    IF sd.criticality = "critical" THEN TRUE
    ELSE \/ /\ sd.sensor_name = "voltage"
            /\ \/ sd.sensor_value > 400000
               \/ sd.sensor_value * 10 < sd.nominal_value * 6
         \/ /\ sd.sensor_name = "power"
            /\ sd.sensor_value > 800000
         \/ /\ sd.sensor_name = "frequency"
            /\ (sd.sensor_value < 58 \/ sd.sensor_value > 62)
         \/ DeviationAbove(sd.sensor_value, sd.nominal_value, 50)

ProdIsAnomalyRulesOnly(sd) == IsAttackData(sd)

\* production_server.py lines 266-286: the classification
ProdIsAnomaly(sd) ==
    IF sd.criticality = "normal" THEN FALSE ELSE IsAttackData(sd)

ProdNoResult ==
    [kind |-> "none", via |-> "none", status |-> 0, isAnomaly |-> FALSE,
     anomalyScore |-> 0, reconstructionError |-> 0, threshold |-> 0,
     confidence |-> 0, threatLevel |-> "NORMAL"]

\* production_server.py lines 60-65
FreshProdStats == [total_samples |-> 0, anomalies_detected |-> 0]

FreshProdLog == [calls |-> 0, verdicts |-> 0, anomalies |-> 0]

NoProdInput ==
    [sensor_name |-> "none", criticality |-> "none", sensor_value |-> 0,
     nominal_value |-> 1]

ProdConfidenceUncapped(anomaly_score) == anomaly_score \div 100

\* production_server.py line 300: min(anomaly_score / 100.0, 1.0)
ProdConfidence(anomaly_score) ==
    IF anomaly_score \div 100 < ProdUnit THEN anomaly_score \div 100 ELSE ProdUnit

\* production_server.py lines 218-316: process_detection.  raised = TRUE is the
\* HTTPException(500) of line 316 (nominal_value = 0 divides by zero, line 226).
ProdProcessDetection(stats, sd) ==
    IF sd.nominal_value = 0
    THEN [raised |-> TRUE, stats |-> stats, result |-> ProdNoResult]
    ELSE LET deviation_percent == DeviationPercent(sd.sensor_value, sd.nominal_value)
             is_anomaly == ProdIsAnomaly(sd)
             anomaly_score == IF is_anomaly THEN 1000 * ProdUnit + deviation_percent * 10
                              ELSE 10 * ProdUnit + deviation_percent
             reconstruction_error ==
                 IF is_anomaly THEN ProdUnit + deviation_percent \div 100
                 ELSE ProdUnit \div 1000 + deviation_percent \div 1000
         IN  [raised |-> FALSE,
              stats |-> [total_samples |-> stats.total_samples + 1,
                         anomalies_detected |->
                            stats.anomalies_detected + (IF is_anomaly THEN 1 ELSE 0)],
              result |-> [kind |-> "verdict", via |-> "none", status |-> 200,
                          isAnomaly |-> is_anomaly,
                          anomalyScore |-> anomaly_score,
                          reconstructionError |-> reconstruction_error,
                          threshold |-> demo_threshold,
                          confidence |-> ProdConfidence(anomaly_score),
                          threatLevel |-> IF is_anomaly THEN "CRITICAL" ELSE "NORMAL"]]

\* production_server.py lines 40-55, up to the call of load_model
ProdInit ==
    /\ prod_phase = "constructed"
    /\ prod_model_loaded = FALSE
    /\ prod_stats = FreshProdStats
    /\ prod_result = ProdNoResult
    /\ prod_log = FreshProdLog
    /\ prod_input = NoProdInput

\* production_server.py lines 71-93 and 445-465: load_model, then run()
ProdLoadModel(loaded) ==
    /\ program = "prod"
    /\ prod_phase = "constructed"
    /\ prod_phase' = "serving"
    /\ prod_model_loaded' = loaded
    /\ UNCHANGED <<prod_stats, prod_result, prod_log, prod_input>>

ProdLogged(log, r) ==
    [calls |-> log.calls + 1,
     verdicts |-> log.verdicts + (IF r.raised THEN 0 ELSE 1),
     anomalies |-> log.anomalies + (IF ~r.raised /\ r.result.isAnomaly THEN 1 ELSE 0)]

\* production_server.py lines 136-145: POST /api/detect
ProdDetect(sd) ==
    /\ program = "prod"
    /\ prod_phase = "serving"
    /\ prod_log.calls < MaxProdCalls
    /\ prod_input' = sd
    /\ IF ~prod_model_loaded
       THEN /\ prod_result' = [ProdNoResult EXCEPT !.kind = "http_error",
                                                   !.via = "detect", !.status = 503]
            /\ prod_log' = [prod_log EXCEPT !.calls = @ + 1]
            /\ UNCHANGED prod_stats
       ELSE LET r == ProdProcessDetection(prod_stats, sd)
            IN  /\ prod_stats' = r.stats
                /\ prod_log' = ProdLogged(prod_log, r)
                /\ prod_result' =
                      IF r.raised
                      THEN [ProdNoResult EXCEPT !.kind = "http_error",
                                                !.via = "detect", !.status = 500]
                      ELSE [r.result EXCEPT !.via = "detect"]
    /\ UNCHANGED <<prod_phase, prod_model_loaded>>

\* production_server.py lines 358-376: a row of the CSV as the stream sends it
StreamRow(row) ==
    [sensor_name |-> row.sensor_name,
     criticality |-> "normal",
     sensor_value |->
        IF row.sensor_name = "voltage" /\ row.sensor_value > 40000 THEN 40000
        ELSE IF row.sensor_name = "power" /\ row.sensor_value > 400000 THEN 400000
        ELSE row.sensor_value,
     nominal_value |-> row.nominal_value]

\* production_server.py lines 355-396: one row of the normal-data stream
ProdStreamSample(row) ==
    /\ program = "prod"
    /\ prod_phase = "serving"
    /\ prod_log.calls < MaxProdCalls
    /\ prod_input' = StreamRow(row)
    /\ LET r == ProdProcessDetection(prod_stats, StreamRow(row))
       IN  /\ prod_stats' = r.stats
           /\ prod_log' = ProdLogged(prod_log, r)
           /\ prod_result' =
                 IF r.raised
                 THEN [ProdNoResult EXCEPT !.kind = "raised", !.via = "stream"]
                 ELSE [r.result EXCEPT !.via = "stream"]
    /\ UNCHANGED <<prod_phase, prod_model_loaded>>

ProdNext ==
    \/ \E loaded \in BOOLEAN : ProdLoadModel(loaded)
    \/ \E sd \in ProdRequests : ProdDetect(sd)
    \/ \E row \in ProdRequests : ProdStreamSample(row)

----------------------------------------------------------------------------
\* GridAnomalyDetector.train (reconstruction_autoencoder.py lines 155-270).
\* A data set is the number of its rows with is_anomaly = 0 and with
\* is_anomaly = 1; the rows themselves are not represented.

\* Bound of the model: epochs
MaxEpochs == 2

\* val_size = min(50000, int(0.05 * len(X_scaled)))
ValidationCap == 50000
ValidationPct == 5

\* anomaly_rate > 0.001, per thousand
ContaminationPerMille == 1

Rows(normal, anomalous) == [normal |-> normal, anomalous |-> anomalous]

NoRows == Rows(0, 0)

Size(rows) == rows.normal + rows.anomalous

\* CSV files: empty, all anomalous, too small to split, clean, and
\* contaminated above, at and below 0.1%
TrainingFiles ==
    {Rows(0, 0), Rows(0, 5), Rows(10, 0), Rows(40, 0), Rows(1000, 0),
     Rows(38, 2), Rows(998, 2), Rows(999, 1), Rows(1999, 1), Rows(2998, 2)}

\* lines 168-174: rows labelled anomalous are dropped when their rate
\* exceeds 0.1% (the mean of an empty column is NaN, which compares false)
FilterToNormal(df) ==
    IF Size(df) > 0 /\ df.anomalous * 1000 > ContaminationPerMille * Size(df)
    THEN Rows(df.normal, 0)
    ELSE df

\* line 183
ValidationSize(n) ==
    LET five == (ValidationPct * n) \div 100
    IN  IF five < ValidationCap THEN five ELSE ValidationCap

\* lines 180-184: StandardScaler.fit_transform raises on zero rows, and
\* train_test_split on a validation size of zero
PreparationRaises(df) == Size(df) = 0 \/ ValidationSize(Size(df)) = 0

\* line 184: the splits train_test_split can produce, k anomalous rows
\* falling into the training part
Splits(df) ==
    LET v == ValidationSize(Size(df))
        t == Size(df) - v
    IN  {[train |-> Rows(t - k, k), val |-> Rows(v - (df.anomalous - k), df.anomalous - k)] :
            k \in {j \in 0..df.anomalous : j <= t /\ df.anomalous - j <= v}}

NoSplit == [train |-> NoRows, val |-> NoRows]

ModelFiles ==
    {"electrical_grid_autoencoder.pth", "feature_scaler.pkl", "label_encoders.pkl",
     "feature_columns.pkl", "reconstruction_threshold.pkl"}

\* no training run has started
TrainInit ==
    /\ train_phase = "start"
    /\ train_file = NoRows
    /\ train_df = NoRows
    /\ train_split = NoSplit
    /\ train_losses = <<>>
    /\ anomalous_updates = 0
    /\ models_dir = {}

\* main() of reconstruction_autoencoder.py with a CSV file present
TrainingInit ==
    /\ train_phase = "start"
    /\ train_file \in TrainingFiles
    /\ train_df = NoRows
    /\ train_split = NoSplit
    /\ train_losses = <<>>
    /\ anomalous_updates = 0
    /\ models_dir = {}

\* line 165: df = pd.read_csv(normal_data_path)
ReadCsv ==
    /\ program = "train"
    /\ train_phase = "start"
    /\ train_df' = train_file
    /\ train_phase' = "loaded"
    /\ UNCHANGED <<train_file, train_split, train_losses, anomalous_updates,
                   models_dir>>

\* lines 168-174: the anomaly-rate check and the filter
VerifyNormal ==
    /\ program = "train"
    /\ train_phase = "loaded"
    /\ train_df' = FilterToNormal(train_df)
    /\ train_phase' = "filtered"
    /\ UNCHANGED <<train_file, train_split, train_losses, anomalous_updates,
                   models_dir>>

\* lines 177-207: features, scaling, the split, the network
PrepareTraining ==
    /\ program = "train"
    /\ train_phase = "filtered"
    /\ IF PreparationRaises(train_df)
       THEN /\ train_phase' = "failed"
            /\ UNCHANGED train_split
       ELSE /\ train_phase' = "training"
            /\ train_split' \in Splits(train_df)
    /\ UNCHANGED <<train_file, train_df, train_losses, anomalous_updates,
                   models_dir>>

\* lines 215-246: one epoch.  Every row of the training part takes part in a
\* gradient update; the loss of the epoch is finite or NaN, and stays NaN
\* once the weights are NaN.  Nothing inspects it.
TrainEpoch(loss) ==
    /\ program = "train"
    /\ train_phase = "training"
    /\ Len(train_losses) < MaxEpochs
    /\ (train_losses # <<>> /\ train_losses[Len(train_losses)] = "nan") => loss = "nan"
    /\ train_losses' = Append(train_losses, loss)
    /\ anomalous_updates' = anomalous_updates + train_split.train.anomalous
    /\ UNCHANGED <<train_phase, train_file, train_df, train_split, models_dir>>

\* lines 248-268 and 272-285: the threshold, then save_model
SaveModel ==
    /\ program = "train"
    /\ train_phase = "training"
    /\ Len(train_losses) = MaxEpochs
    /\ models_dir' = ModelFiles
    /\ train_phase' = "saved"
    /\ UNCHANGED <<train_file, train_df, train_split, train_losses,
                   anomalous_updates>>

TrainNext ==
    \/ ReadCsv
    \/ VerifyNormal
    \/ PrepareTraining
    \/ \E loss \in {"finite", "nan"} : TrainEpoch(loss)
    \/ SaveModel

----------------------------------------------------------------------------
\* broadcast_detection run by scoring calls that are in flight together on
\* the event loop (api_server.py lines 264 and 271-285).  Coroutines change
\* hands only at an await: each step below runs from one await to the next.
\* The endpoint of lines 171-182 only sleeps, so a client that has gone is
\* taken out of the list by a broadcast, when its send raises.

WebSockets == {"ws1", "ws2"}

Broadcasters == {"detect1", "detect2"}

Range(list) == {list[k] : k \in DOMAIN list}

\* lists of distinct websockets, in the order they connected
ConnectionLists ==
    {<<>>} \cup {<<c>> : c \in WebSockets} \cup
    ({<<c, d>> : c, d \in WebSockets} \ {<<c, c>> : c \in WebSockets})

IdleBroadcast ==
    [pc |-> "idle", i |-> 0, disconnected |-> <<>>, sent |-> {}, stayed |-> {}]

\* another program runs: no broadcast is modelled
BroadcastIdle ==
    /\ connection_list = <<>>
    /\ closed_connections = {}
    /\ broadcasts = [b \in Broadcasters |-> IdleBroadcast]

\* a serving API server with its clients connected
BroadcastInit ==
    /\ connection_list \in ConnectionLists
    /\ closed_connections = {}
    /\ broadcasts = [b \in Broadcasters |-> IdleBroadcast]

\* list.remove(connection)
ListRemove(list, connection) == SelectSeq(list, LAMBDA x : x # connection)

\* lines 284-285: remove the entries of disconnected[k..] in order;
\* list.remove raises ValueError for one that is not in the list
RECURSIVE RemoveDisconnected(_, _, _)
RemoveDisconnected(list, disconnected, k) ==
    IF k > Len(disconnected) THEN [list |-> list, raised |-> FALSE]
    ELSE IF disconnected[k] \notin Range(list) THEN [list |-> list, raised |-> TRUE]
    ELSE RemoveDisconnected(ListRemove(list, disconnected[k]), disconnected, k + 1)

\* lines 277-285, from one await to the next: the list iterator takes the
\* entry at its index if there is one and the send is awaited; otherwise the
\* loop is over and the removals run
LoopStep(bc, list, closed) ==
    IF bc.i < Len(list)
    THEN LET connection == list[bc.i + 1]
         IN  [list |-> list,
              bc |-> [bc EXCEPT
                  !.pc = "loop",
                  !.i = @ + 1,
                  !.sent = IF connection \in closed THEN @ ELSE @ \cup {connection},
                  !.disconnected = IF connection \in closed
                                   THEN Append(@, connection) ELSE @]]
    ELSE LET r == RemoveDisconnected(list, bc.disconnected, 1)
         IN  [list |-> r.list,
              bc |-> [bc EXCEPT !.pc = IF r.raised THEN "raised" ELSE "returned"]]

\* the other broadcasts in flight see the list change
Others(b, list) ==
    [x \in Broadcasters \ {b} |->
        [broadcasts[x] EXCEPT !.stayed = @ \cap Range(list)]]

\* line 264 and lines 273-279: a scoring call enters broadcast_detection
EnterBroadcast(b) ==
    /\ program = "bcast"
    /\ broadcasts[b].pc = "idle"
    /\ IF connection_list = <<>>
       THEN /\ broadcasts' = [broadcasts EXCEPT ![b].pc = "returned"]
            /\ UNCHANGED connection_list
       ELSE LET bc == [IdleBroadcast EXCEPT !.stayed = Range(connection_list)]
                r == LoopStep(bc, connection_list, closed_connections)
            IN  /\ connection_list' = r.list
                /\ broadcasts' = [x \in Broadcasters |->
                      IF x = b THEN r.bc ELSE Others(b, r.list)[x]]
    /\ UNCHANGED closed_connections

\* lines 277-285: the broadcast resumes after an awaited send
ResumeBroadcast(b) ==
    /\ program = "bcast"
    /\ broadcasts[b].pc = "loop"
    /\ LET r == LoopStep(broadcasts[b], connection_list, closed_connections)
       IN  /\ connection_list' = r.list
           /\ broadcasts' = [x \in Broadcasters |->
                 IF x = b THEN r.bc ELSE Others(b, r.list)[x]]
    /\ UNCHANGED closed_connections

\* lines 171-174: a client connects
AcceptWebSocket(c) ==
    /\ program = "bcast"
    /\ c \notin Range(connection_list)
    /\ c \notin closed_connections
    /\ connection_list' = Append(connection_list, c)
    /\ UNCHANGED <<closed_connections, broadcasts>>

\* a connected client goes away; lines 176-179 keep sleeping
ClientGone(c) ==
    /\ program = "bcast"
    /\ c \in Range(connection_list)
    /\ c \notin closed_connections
    /\ closed_connections' = closed_connections \cup {c}
    /\ UNCHANGED <<connection_list, broadcasts>>

BroadcastNext ==
    \/ \E b \in Broadcasters : EnterBroadcast(b)
    \/ \E b \in Broadcasters : ResumeBroadcast(b)
    \/ \E c \in WebSockets : AcceptWebSocket(c)
    \/ \E c \in WebSockets : ClientGone(c)

----------------------------------------------------------------------------
\* process_detection run by two threads at once: the uvicorn event loop
\* (POST /detect) and the thread start_data_stream starts.  self.stats is
\* shared and no lock guards it; `self.stats[k] += 1` is a read of the
\* entry followed by a write, and the other thread can run in between.

\* records of trained categories: scored without an exception
ScoredSamples ==
    {[category |-> "GENERATOR_UNIT_001", reconstruction_error |-> e] :
        e \in {0, api_detector.reconstruction_threshold + 1}}

\* api_server.py lines 438-453: a server whose model loaded, serving, with
\* the stream thread started on a CSV of csv_rows rows
ApiServing(persisted_threshold, csv_rows) ==
    /\ api_phase = "serving"
    /\ api_model_loaded = LoadedFlag(0)
    /\ api_detector = LoadComponents(FreshDetector, 0, persisted_threshold)
    /\ api_stats = FreshStats
    /\ active_connections = {}
    /\ data_stream_active = TRUE
    /\ stream_state = "running"
    /\ stream_left = (IF csv_rows < StreamSampleCap THEN csv_rows ELSE StreamSampleCap)
    /\ api_result = ApiNoResult
    /\ api_log = FreshLog
    /\ api_threads = [t \in Threads |-> IdleThread]

\* api_server.py lines 186-242: a thread enters process_detection and scores
\* the record (locals only)
EnterProcessDetection(t, sample) ==
    /\ program = "race"
    /\ api_threads[t].pc = "idle"
    /\ IF t = "loop"
       THEN api_model_loaded /\ api_log.requests < MaxRequests
       ELSE stream_state = "running" /\ stream_left > 0
    /\ LET pf == PrepareFeatures(api_detector, sample)
           threshold == pf.detector.reconstruction_threshold
           is_anomaly == Prediction(sample.reconstruction_error, threshold)
       IN  /\ ~pf.raised
           /\ ~ScalerTransformRaises(pf.detector)
           /\ ~DetectAnomaliesRaises(pf.detector)
           /\ api_detector' = pf.detector
           /\ api_threads' = [api_threads EXCEPT ![t] =
                 [pc |-> "load_total",
                  reconstruction_error |-> sample.reconstruction_error,
                  is_anomaly |-> is_anomaly,
                  threat_level |-> ThreatLevel(is_anomaly, sample.reconstruction_error,
                                               threshold),
                  loaded |-> 0]]
    /\ api_log' = [api_log EXCEPT !.requests = @ + (IF t = "loop" THEN 1 ELSE 0),
                                  !.attempts = @ + 1]
    /\ UNCHANGED <<api_phase, api_model_loaded, api_stats, active_connections,
                   data_stream_active, stream_state, stream_left, api_result>>

\* api_server.py line 245, the read of self.stats['total_samples']
LoadTotalSamples(t) ==
    /\ program = "race"
    /\ api_threads[t].pc = "load_total"
    /\ api_threads' = [api_threads EXCEPT ![t].loaded = api_stats.total_samples,
                                          ![t].pc = "store_total"]
    /\ UNCHANGED <<api_phase, api_model_loaded, api_detector, api_stats,
                   active_connections, data_stream_active, stream_state,
                   stream_left, api_result, api_log>>

\* api_server.py lines 245-246, the write of self.stats['total_samples']
StoreTotalSamples(t) ==
    /\ program = "race"
    /\ api_threads[t].pc = "store_total"
    /\ api_stats' = [api_stats EXCEPT !.total_samples = api_threads[t].loaded + 1]
    /\ api_threads' = [api_threads EXCEPT ![t].pc =
          IF api_threads[t].is_anomaly THEN "load_anomalies" ELSE "store_level"]
    /\ UNCHANGED <<api_phase, api_model_loaded, api_detector,
                   active_connections, data_stream_active, stream_state,
                   stream_left, api_result, api_log>>

\* api_server.py line 247, the read of self.stats['anomalies_detected']
LoadAnomaliesDetected(t) ==
    /\ program = "race"
    /\ api_threads[t].pc = "load_anomalies"
    /\ api_threads' = [api_threads EXCEPT ![t].loaded = api_stats.anomalies_detected,
                                          ![t].pc = "store_anomalies"]
    /\ UNCHANGED <<api_phase, api_model_loaded, api_detector, api_stats,
                   active_connections, data_stream_active, stream_state,
                   stream_left, api_result, api_log>>

\* api_server.py lines 247-248, the write of anomalies_detected and the
\* detection time
StoreAnomaliesDetected(t) ==
    /\ program = "race"
    /\ api_threads[t].pc = "store_anomalies"
    /\ api_stats' = [api_stats EXCEPT
          !.anomalies_detected = api_threads[t].loaded + 1,
          !.last_detection_time = ApiNow]
    /\ api_threads' = [api_threads EXCEPT ![t].pc = "store_level"]
    /\ UNCHANGED <<api_phase, api_model_loaded, api_detector,
                   active_connections, data_stream_active, stream_state,
                   stream_left, api_result, api_log>>

\* api_server.py lines 249-265: the threat level is stored, the result is
\* built and broadcast, the call returns
ReturnDetection(t) ==
    /\ program = "race"
    /\ api_threads[t].pc = "store_level"
    /\ LET me == api_threads[t]
           threshold == api_detector.reconstruction_threshold
           anomaly_score == AnomalyScore(me.reconstruction_error, threshold)
           bc == BroadcastDetection(active_connections, {})
       IN  /\ api_stats' = [api_stats EXCEPT !.current_threat_level = me.threat_level]
           /\ active_connections' = bc.connections
           /\ api_result' = [kind |-> "verdict",
                             via |-> IF t = "loop" THEN "detect" ELSE "stream",
                             status |-> 200,
                             isAnomaly |-> me.is_anomaly,
                             anomalyScore |-> anomaly_score,
                             reconstructionError |-> me.reconstruction_error,
                             threshold |-> threshold,
                             confidence |-> ApiConfidence(anomaly_score),
                             threatLevel |-> me.threat_level,
                             sent |-> bc.sent]
           /\ api_log' = [api_log EXCEPT
                 !.verdicts = @ + 1,
                 !.anomalies = @ + (IF me.is_anomaly THEN 1 ELSE 0)]
    /\ stream_left' = (IF t = "stream" THEN stream_left - 1 ELSE stream_left)
    /\ api_threads' = [api_threads EXCEPT ![t] = IdleThread]
    /\ UNCHANGED <<api_phase, api_model_loaded, api_detector,
                   data_stream_active, stream_state>>

ApiRaceNext ==
    \/ \E t \in Threads, sample \in ScoredSamples : EnterProcessDetection(t, sample)
    \/ \E t \in Threads : LoadTotalSamples(t)
    \/ \E t \in Threads : StoreTotalSamples(t)
    \/ \E t \in Threads : LoadAnomaliesDetected(t)
    \/ \E t \in Threads : StoreAnomaliesDetected(t)
    \/ \E t \in Threads : ReturnDetection(t)

----------------------------------------------------------------------------
\* predict_anomaly run by two callers at once on one service instance.  The
\* method takes no lock; each caller advances statement by statement over
\* lines 153-196 and the other can run in between.

\* sensor_data of the concurrent calls: scored without an exception
CallerInputs ==
    {sd \in SensorInputs :
        /\ sd.ok
        /\ sd.reconstruction_error \in {0, 3 * CriticalityThreshold(sd.criticality)}}

\* the instance before the concurrent calls: fresh, one short of the minimum
\* sample count, or with a full window
RaceWarmLengths == {0, MinSamples - 1, WindowSize}

SvcRaceInit ==
    /\ svc_model_loaded = TRUE
    /\ \E n \in RaceWarmLengths : \E a \in {0, n} :
        LET st == Replay(FreshWindowState, WarmStream(n, a, TRUE))
        IN  /\ has_recent_predictions = st.has
            /\ recent_predictions = st.window
            /\ error_cap_threshold = st.cap
            /\ svc_decisions = st.decisions
    /\ svc_result = NoResult
    /\ svc_input = NoInput
    /\ svc_calls = 0
    /\ svc_feed = NoFeed
    /\ svc_threads = NoCallers

\* lines 106-149: the caller enters, scores the record and takes the first
\* decision (locals only)
EnterPredictAnomaly(c, sensor_data) ==
    /\ program = "svcrace"
    /\ svc_threads[c].pc = "idle"
    /\ svc_model_loaded
    /\ LET final_threshold == CriticalityThreshold(sensor_data.criticality)
       IN  svc_threads' = [svc_threads EXCEPT ![c] =
              [IdleCaller EXCEPT
                  !.pc = "hasattr",
                  !.reconstruction_error = sensor_data.reconstruction_error,
                  !.final_threshold = final_threshold,
                  !.is_anomaly = Exceeds(sensor_data.reconstruction_error,
                                         final_threshold)]]
    /\ svc_calls' = svc_calls + 1
    /\ svc_input' = sensor_data
    /\ UNCHANGED <<svc_model_loaded, has_recent_predictions, recent_predictions,
                   error_cap_threshold, svc_result, svc_decisions, svc_feed>>

\* line 153: if not hasattr(self, 'recent_predictions')
TestHasattr(c) ==
    /\ program = "svcrace"
    /\ svc_threads[c].pc = "hasattr"
    /\ svc_threads' = [svc_threads EXCEPT ![c].pc =
          IF has_recent_predictions THEN "append" ELSE "create_window"]
    /\ UNCHANGED <<svc_model_loaded, has_recent_predictions, recent_predictions,
                   error_cap_threshold, svc_result, svc_input, svc_decisions,
                   svc_calls, svc_feed>>

\* line 154: self.recent_predictions = []
CreateWindow(c) ==
    /\ program = "svcrace"
    /\ svc_threads[c].pc = "create_window"
    /\ has_recent_predictions' = TRUE
    /\ recent_predictions' = <<>>
    /\ svc_threads' = [svc_threads EXCEPT ![c].pc = "create_cap"]
    /\ UNCHANGED <<svc_model_loaded, error_cap_threshold, svc_result, svc_input,
                   svc_decisions, svc_calls, svc_feed>>

\* line 155: self.error_cap_threshold = final_threshold
CreateCap(c) ==
    /\ program = "svcrace"
    /\ svc_threads[c].pc = "create_cap"
    /\ error_cap_threshold' = svc_threads[c].final_threshold
    /\ svc_threads' = [svc_threads EXCEPT ![c].pc = "append"]
    /\ UNCHANGED <<svc_model_loaded, has_recent_predictions, recent_predictions,
                   svc_result, svc_input, svc_decisions, svc_calls, svc_feed>>

\* line 158: self.recent_predictions.append(is_anomaly)
AppendPrediction(c) ==
    /\ program = "svcrace"
    /\ svc_threads[c].pc = "append"
    /\ recent_predictions' = Append(recent_predictions, svc_threads[c].is_anomaly)
    /\ svc_decisions' = Append(svc_decisions, svc_threads[c].is_anomaly)
    /\ svc_threads' = [svc_threads EXCEPT ![c].pc = "test_length",
                                          ![c].position = Len(svc_decisions) + 1]
    /\ UNCHANGED <<svc_model_loaded, has_recent_predictions, error_cap_threshold,
                   svc_result, svc_input, svc_calls, svc_feed>>

\* line 159: if len(self.recent_predictions) > 100
TestLength(c) ==
    /\ program = "svcrace"
    /\ svc_threads[c].pc = "test_length"
    /\ svc_threads' = [svc_threads EXCEPT ![c].pc =
          IF Len(recent_predictions) > WindowSize THEN "pop" ELSE "rate"]
    /\ UNCHANGED <<svc_model_loaded, has_recent_predictions, recent_predictions,
                   error_cap_threshold, svc_result, svc_input, svc_decisions,
                   svc_calls, svc_feed>>

\* line 160: self.recent_predictions.pop(0)
PopOldest(c) ==
    /\ program = "svcrace"
    /\ svc_threads[c].pc = "pop"
    /\ recent_predictions # <<>>
    /\ recent_predictions' = Tail(recent_predictions)
    /\ svc_threads' = [svc_threads EXCEPT ![c].pc = "rate"]
    /\ UNCHANGED <<svc_model_loaded, has_recent_predictions, error_cap_threshold,
                   svc_result, svc_input, svc_decisions, svc_calls, svc_feed>>

\* lines 163-177: the rate over the window as it is now, and the adjustment
ComputeRate(c) ==
    /\ program = "svcrace"
    /\ svc_threads[c].pc = "rate"
    /\ LET me == svc_threads[c]
           band == RateBand(recent_predictions)
           threshold == AdjustedThreshold(me.final_threshold, band)
       IN  /\ error_cap_threshold' =
                 (IF band \in {"over", "under"} THEN threshold ELSE error_cap_threshold)
           /\ svc_threads' = [svc_threads EXCEPT ![c] =
                 [me EXCEPT
                     !.pc = "return",
                     !.n = Len(recent_predictions),
                     !.band = band,
                     !.current_error_rate = CurrentErrorRate(recent_predictions),
                     !.is_anomaly = FinalDecision(me.reconstruction_error,
                                                  me.is_anomaly, threshold, band),
                     !.final_threshold = threshold]]
    /\ UNCHANGED <<svc_model_loaded, has_recent_predictions, recent_predictions,
                   svc_result, svc_input, svc_decisions, svc_calls, svc_feed>>

\* lines 180-196: confidence and the returned dict
ReturnVerdict(c) ==
    /\ program = "svcrace"
    /\ svc_threads[c].pc = "return"
    /\ LET me == svc_threads[c]
           enough == Len(recent_predictions) >= MinSamples
       IN  /\ svc_result' =
                 [kind |-> "verdict", keys |-> VerdictKeys,
                  is_anomaly |-> me.is_anomaly,
                  anomaly_score |-> me.reconstruction_error,
                  reconstruction_error |-> me.reconstruction_error,
                  confidence |-> Confidence(me.is_anomaly, me.reconstruction_error,
                                            me.final_threshold),
                  threshold |-> me.final_threshold,
                  current_error_rate |-> IF enough THEN me.current_error_rate ELSE 0,
                  error_rate_capped |-> (enough /\ me.band = "over")]
           /\ svc_threads' = [svc_threads EXCEPT
                 ![c].pc = "done",
                 ![c].length_at_return = Len(recent_predictions)]
    /\ UNCHANGED <<svc_model_loaded, has_recent_predictions, recent_predictions,
                   error_cap_threshold, svc_input, svc_decisions, svc_calls,
                   svc_feed>>

SvcRaceNext ==
    \/ \E c \in Callers, sensor_data \in CallerInputs : EnterPredictAnomaly(c, sensor_data)
    \/ \E c \in Callers : TestHasattr(c)
    \/ \E c \in Callers : CreateWindow(c)
    \/ \E c \in Callers : CreateCap(c)
    \/ \E c \in Callers : AppendPrediction(c)
    \/ \E c \in Callers : TestLength(c)
    \/ \E c \in Callers : PopOldest(c)
    \/ \E c \in Callers : ComputeRate(c)
    \/ \E c \in Callers : ReturnVerdict(c)

----------------------------------------------------------------------------
Programs == {"svc", "api", "flask", "prod"}

Init ==
    /\ program \in Programs
    /\ IF program = "svc" THEN SvcInit ELSE SvcIdle
    /\ ApiInit
    /\ DepInit
    /\ ProdInit
    /\ TrainInit /\ MainInit /\ BroadcastIdle
    /\ svc_threads = NoCallers

Next ==
    \/ SvcNext /\ UNCHANGED <<program, apiVars, depVars, prodVars, trainVars, mainVars, bcastVars, raceVars>>
    \/ ApiNext /\ UNCHANGED <<program, svcVars, depVars, prodVars, trainVars, mainVars, bcastVars, raceVars>>
    \/ DepNext /\ UNCHANGED <<program, svcVars, apiVars, prodVars, trainVars, mainVars, bcastVars, raceVars>>
    \/ ProdNext /\ UNCHANGED <<program, svcVars, apiVars, depVars, trainVars, mainVars, bcastVars, raceVars>>

\* the adaptive service alone
InitSvc == program = "svc" /\ SvcInit /\ ApiInit /\ DepInit /\ ProdInit /\ TrainInit /\ MainInit /\ BroadcastIdle /\ svc_threads = NoCallers

NextSvc == SvcNext /\ UNCHANGED <<program, apiVars, depVars, prodVars, trainVars, mainVars, bcastVars, raceVars>>

SpecSvc == InitSvc /\ [][NextSvc]_vars

\* the adaptive service fed the synthetic 30% stream
InitFeed == program = "feed" /\ FeedInit /\ ApiInit /\ DepInit /\ ProdInit /\ TrainInit /\ MainInit /\ BroadcastIdle /\ svc_threads = NoCallers

NextFeed == FeedCall /\ UNCHANGED <<program, apiVars, depVars, prodVars, trainVars, mainVars, bcastVars, raceVars>>

SpecFeed == InitFeed /\ [][NextFeed]_vars

\* the two servers built on GridAnomalyDetector
InitServers == program \in {"api", "flask"} /\ SvcIdle /\ ApiInit /\ DepInit /\ ProdInit /\ TrainInit /\ MainInit /\ BroadcastIdle /\ svc_threads = NoCallers

NextServers ==
    \/ ApiNext /\ UNCHANGED <<program, svcVars, depVars, prodVars, trainVars, mainVars, bcastVars, raceVars>>
    \/ DepNext /\ UNCHANGED <<program, svcVars, apiVars, prodVars, trainVars, mainVars, bcastVars, raceVars>>

SpecServers == InitServers /\ [][NextServers]_vars

\* the API server alone
InitApi == program = "api" /\ SvcIdle /\ ApiInit /\ DepInit /\ ProdInit /\ TrainInit /\ MainInit /\ BroadcastIdle /\ svc_threads = NoCallers

NextApi == ApiNext /\ UNCHANGED <<program, svcVars, depVars, prodVars, trainVars, mainVars, bcastVars, raceVars>>

SpecApi == InitApi /\ [][NextApi]_vars

\* the API server with the event loop and the stream thread interleaved
InitApiRace ==
    /\ program = "race"
    /\ SvcIdle
    /\ \E t \in 1..MaxThreshold, n \in 1..MaxRows : ApiServing(t, n)
    /\ DepInit
    /\ ProdInit
    /\ TrainInit /\ MainInit /\ BroadcastIdle
    /\ svc_threads = NoCallers

NextApiRace == ApiRaceNext /\ UNCHANGED <<program, svcVars, depVars, prodVars, trainVars, mainVars, bcastVars, svc_threads>>

SpecApiRace == InitApiRace /\ [][NextApiRace]_vars

\* the adaptive service with two callers interleaved
InitSvcRace == program = "svcrace" /\ SvcRaceInit /\ ApiInit /\ DepInit /\ ProdInit /\ TrainInit /\ MainInit /\ BroadcastIdle

NextSvcRace == SvcRaceNext /\ UNCHANGED <<program, apiVars, depVars, prodVars, trainVars, mainVars, bcastVars, api_threads>>

SpecSvcRace == InitSvcRace /\ [][NextSvcRace]_vars

\* the production server alone
InitProd == program = "prod" /\ SvcIdle /\ ApiInit /\ DepInit /\ ProdInit /\ TrainInit /\ MainInit /\ BroadcastIdle /\ svc_threads = NoCallers

NextProd == ProdNext /\ UNCHANGED <<program, svcVars, apiVars, depVars, trainVars, mainVars, bcastVars, raceVars>>

SpecProd == InitProd /\ [][NextProd]_vars

\* a training run
InitTrain ==
    /\ program = "train"
    /\ SvcIdle /\ ApiInit /\ DepInit /\ ProdInit
    /\ TrainingInit
    /\ MainInit /\ BroadcastIdle
    /\ svc_threads = NoCallers

NextTrain == TrainNext /\ UNCHANGED <<program, svcVars, apiVars, depVars, prodVars, mainVars, bcastVars, raceVars>>

SpecTrain == InitTrain /\ [][NextTrain]_vars

\* the script, started any number of times
InitMain ==
    /\ program = "main"
    /\ SvcIdle /\ ApiInit /\ DepInit /\ ProdInit /\ TrainInit /\ MainInit /\ BroadcastIdle
    /\ svc_threads = NoCallers

NextMain == MainNext /\ UNCHANGED <<program, apiVars, depVars, prodVars, trainVars, bcastVars, raceVars>>

SpecMain == InitMain /\ [][NextMain]_vars

\* broadcasts of scoring calls in flight together
InitBroadcast ==
    /\ program = "bcast"
    /\ SvcIdle /\ ApiInit /\ DepInit /\ ProdInit /\ TrainInit /\ MainInit
    /\ BroadcastInit
    /\ svc_threads = NoCallers

NextBroadcast ==
    BroadcastNext /\ UNCHANGED <<program, svcVars, apiVars, depVars, prodVars, trainVars, mainVars, raceVars>>

SpecBroadcast == InitBroadcast /\ [][NextBroadcast]_vars

Spec == Init /\ [][Next]_vars

----------------------------------------------------------------------------
\* Properties

\* the criticality-modulated base 0.4 x (0.6 | 0.8 | 1.0) of the last call
LastBase ==
    CASE svc_input.criticality = "critical" -> 2400
      [] svc_input.criticality = "high" -> 3200
      [] OTHER -> 4000

WindowAnomalies == Cardinality({i \in DOMAIN recent_predictions : recent_predictions[i]})

\* C1: every verdict of a model-based scoring call has
\* is_anomaly = (reconstruction_error > threshold), strictly, for the threshold
\* the same verdict reports: in the adaptive service (adjusted or not), in the
\* API server and in the Flask deployment (GridAnomalyDetector.detect_anomalies).
C1_DecisionMatchesThreshold ==
    /\ svc_result.kind = "verdict" =>
          (svc_result.is_anomaly <=>
              svc_result.reconstruction_error > svc_result.threshold)
    /\ api_result.kind = "verdict" =>
          (api_result.isAnomaly <=>
              api_result.reconstructionError > api_result.threshold)
    /\ dep_result.kind = "verdict" =>
          (dep_result.is_anomaly <=>
              dep_result.reconstruction_error > dep_result.threshold)

\* an adjusted call whose decision the adjustment changed: the error lies
\* above the base and not above the raised threshold
C1_Witness ==
    /\ svc_result.kind = "verdict"
    /\ svc_result.threshold > LastBase
    /\ svc_result.reconstruction_error > LastBase
    /\ ~svc_result.is_anomaly

\* C2: the threat level of a verdict follows r = error / threshold: NORMAL when
\* not anomalous, else CRITICAL for r > 10, HIGH for 5 < r <= 10, MEDIUM for
\* 2 < r <= 5, LOW for r <= 2; NORMAL exactly when is_anomaly is false.
C2_ThreatLevelBands ==
    /\ api_result.kind = "verdict" =>
          LET e == api_result.reconstructionError
              t == api_result.threshold
          IN  /\ (api_result.threatLevel = "NORMAL") <=> ~api_result.isAnomaly
              /\ api_result.isAnomaly =>
                    /\ (api_result.threatLevel = "CRITICAL") <=> (e > 10 * t)
                    /\ (api_result.threatLevel = "HIGH") <=> (e > 5 * t /\ e <= 10 * t)
                    /\ (api_result.threatLevel = "MEDIUM") <=> (e > 2 * t /\ e <= 5 * t)
                    /\ (api_result.threatLevel = "LOW") <=> (e <= 2 * t)
    /\ dep_result.kind = "verdict" =>
          LET e == dep_result.reconstruction_error
              t == dep_result.threshold
          IN  /\ (dep_result.threat_level = "NORMAL") <=> ~dep_result.is_anomaly
              /\ dep_result.is_anomaly =>
                    /\ (dep_result.threat_level = "CRITICAL") <=> (e > 10 * t)
                    /\ (dep_result.threat_level = "HIGH") <=> (e > 5 * t /\ e <= 10 * t)
                    /\ (dep_result.threat_level = "MEDIUM") <=> (e > 2 * t /\ e <= 5 * t)
                    /\ (dep_result.threat_level = "LOW") <=> (e <= 2 * t)

\* an anomalous verdict exactly on the boundary r = 10, labelled HIGH
C2_Witness ==
    /\ api_result.kind = "verdict"
    /\ api_result.isAnomaly
    /\ api_result.reconstructionError = 10 * api_result.threshold
    /\ api_result.threatLevel = "HIGH"

\* C3: with the model not loaded, every scoring entry point returns (does not
\* raise) a structured not-ready result with is_anomaly = false, reconstruction
\* error = 0 and an explicit error field, and leaves the counters and the
\* adaptive window unchanged.
C3_NotReadyIsStructuredResult ==
    /\ (svc_calls > 0 /\ ~svc_model_loaded) =>
          /\ svc_result.kind = "not_ready"
          /\ {"is_anomaly", "reconstruction_error", "error"} \subseteq svc_result.keys
          /\ ~svc_result.is_anomaly
          /\ svc_result.reconstruction_error = 0
          /\ ~has_recent_predictions /\ recent_predictions = <<>>
    /\ (dep_log.calls > 0 /\ ~is_loaded) =>
          /\ dep_result.kind = "not_ready"
          /\ {"is_anomaly", "reconstruction_error", "error"} \subseteq dep_result.keys
          /\ ~dep_result.is_anomaly
          /\ dep_result.reconstruction_error = 0
          /\ detection_stats = FreshDetectionStats
    /\ (api_log.requests > 0 /\ ~api_model_loaded /\ api_result.via = "detect") =>
          /\ api_result.kind # "http_error"
          /\ ~api_result.isAnomaly
          /\ api_result.reconstructionError = 0

\* C4: while model loading has not succeeded (model_loaded false, also after a
\* load that failed part-way) neither /detect nor the background stream
\* produces a verdict, updates total_samples / anomalies_detected or
\* broadcasts a result.
C4_NoScoringBeforeLoad ==
    ~api_model_loaded =>
        /\ api_result.kind # "verdict"
        /\ api_stats.total_samples = 0
        /\ api_stats.anomalies_detected = 0
        /\ api_result.sent = {}

\* C5: a scoring call that fails internally is reported to its caller as a
\* result carrying an error field, never as a raised exception, and the
\* serving loop keeps scoring the samples that follow (the stream does not
\* stop at the first failing sample).
C5_FailuresAreResultsAndLoopContinues ==
    /\ (svc_calls > 0 /\ svc_model_loaded /\ ~svc_input.ok) =>
          (svc_result.kind = "error" /\ "error" \in svc_result.keys)
    /\ dep_result.kind = "error" => "error" \in dep_result.keys
    /\ api_result.kind # "raised"
    /\ ~(api_result.kind = "http_error" /\ api_result.status = 500)
    /\ ~(stream_state = "crashed" /\ stream_left > 0)

\* C6: with n decisions in the window after a scoring call (its own included):
\* n < 20 leaves the threshold at the criticality-modulated base; n >= 20 and
\* a trailing rate > 15% raises it by 1.1; a rate < 10% lowers it by 0.95; a
\* rate within [10%, 15%] leaves it unadjusted.
C6_AdaptiveAdjustment ==
    svc_result.kind = "verdict" =>
        LET n == Len(recent_predictions)
            s == WindowAnomalies
            t == svc_result.threshold
        IN  /\ n < 20 => t = LastBase
            /\ (n >= 20 /\ s * 100 > 15 * n) => t * 10 = LastBase * 11
            /\ (n >= 20 /\ s * 100 < 10 * n) => t * 100 = LastBase * 95
            /\ (n >= 20 /\ s * 100 >= 10 * n /\ s * 100 <= 15 * n) => t = LastBase

\* the window holds exactly 20 decisions, 3 of them anomalous (15%), and the
\* call left the threshold unadjusted
C6_Witness ==
    /\ svc_result.kind = "verdict"
    /\ Len(recent_predictions) = 20
    /\ WindowAnomalies = 3
    /\ svc_result.threshold = LastBase

\* C7: after every scoring call the window holds at most 100 decisions and is
\* the most recent min(k, 100) of the k decisions appended so far, in arrival
\* order (the oldest is evicted, the newest is last).
C7_WindowIsBoundedFifo ==
    LET k == Len(svc_decisions)
        m == IF k < 100 THEN k ELSE 100
    IN  /\ Len(recent_predictions) <= 100
        /\ recent_predictions = SubSeq(svc_decisions, k - m + 1, k)

\* a call arrived with 100 entries present
C7_Witness ==
    /\ Len(svc_decisions) > 100
    /\ Len(recent_predictions) = 100
    /\ svc_result.kind = "verdict"

\* C8: fed a stream in which 30% of the samples are flagged anomalous, the
\* service raises the effective threshold until the trailing anomaly rate has
\* fallen to at most 15%, within one window length (100 calls).
C8_RateCappedWithinWindow ==
    (program = "feed" /\ svc_calls >= 100) =>
        WindowAnomalies * 100 <= 15 * Len(recent_predictions)

\* C9: with process_detection run concurrently by the event loop and the
\* stream thread, anomalies_detected never exceeds total_samples, and once no
\* call is in flight total_samples is the number of verdicts returned and
\* anomalies_detected the number of them with isAnomaly true.
C9_CountersExact ==
    program = "race" =>
        /\ api_stats.anomalies_detected <= api_stats.total_samples
        /\ (\A t \in Threads : api_threads[t].pc = "idle") =>
              /\ api_stats.total_samples = api_log.verdicts
              /\ api_stats.anomalies_detected = api_log.anomalies

\* C10: with two concurrent calls on one service instance, each call that has
\* returned computed its rate over exactly the decisions appended up to its
\* own (at most the last 100) and left a window of at most 100; once both have
\* returned the window is the last min(k, 100) of the k decisions appended,
\* none lost and none repeated.
C10_WindowTransactionAtomic ==
    program = "svcrace" =>
        /\ \A c \in Callers :
              svc_threads[c].pc = "done" =>
                 /\ svc_threads[c].length_at_return <= 100
                 /\ svc_threads[c].n =
                       (IF svc_threads[c].position < 100
                        THEN svc_threads[c].position ELSE 100)
        /\ (\A c \in Callers : svc_threads[c].pc = "done") =>
              LET k == Len(svc_decisions)
                  m == IF k < 100 THEN k ELSE 100
              IN  recent_predictions = SubSeq(svc_decisions, k - m + 1, k)

C12_ConfidenceInUnitInterval ==
    /\ svc_result.kind \in {"verdict", "not_ready", "error"} =>
          (svc_result.confidence >= 0 /\ svc_result.confidence <= Unit)
    /\ api_result.kind = "verdict" =>
          (api_result.confidence >= 0 /\ api_result.confidence <= Unit)
    /\ dep_result.kind = "verdict" =>
          (dep_result.confidence >= 0 /\ dep_result.confidence <= Unit)
    /\ (prod_result.kind = "verdict" /\ prod_result.reconstructionError >= 0) =>
          (prod_result.confidence >= 0 /\ prod_result.confidence <= ProdUnit)

\* a production verdict whose anomaly score / 100 exceeds 1 and is capped
C12_Witness ==
    /\ prod_result.kind = "verdict"
    /\ prod_result.isAnomaly
    /\ prod_result.reconstructionError >= 0
    /\ prod_result.anomalyScore > 100 * ProdUnit
    /\ prod_result.confidence = ProdUnit

\* the confidence the specification prescribes for a verdict, fixed point:
\* max(1 - error/threshold, 0.1) when normal, min((error - threshold)/threshold, 1)
\* when anomalous
PrescribedConfidence(is_anomaly, error, threshold) ==
    IF is_anomaly
    THEN LET c == ((error - threshold) * Unit) \div threshold
         IN  IF c < Unit THEN c ELSE Unit
    ELSE LET c == Unit - ((error * Unit) \div threshold)
         IN  IF c > Unit \div 10 THEN c ELSE Unit \div 10

\* C13: every verdict of the adaptive service, the API server and the Flask
\* deployment carries the prescribed confidence: max(1 - error/threshold, 0.1)
\* (so at least 0.1) when not anomalous, min((error - threshold)/threshold, 1.0)
\* when anomalous.
C13_ConfidenceFormula ==
    /\ svc_result.kind = "verdict" =>
          /\ svc_result.confidence =
                PrescribedConfidence(svc_result.is_anomaly,
                                     svc_result.reconstruction_error,
                                     svc_result.threshold)
          /\ ~svc_result.is_anomaly => svc_result.confidence * 10 >= Unit
    /\ api_result.kind = "verdict" =>
          /\ api_result.confidence =
                PrescribedConfidence(api_result.isAnomaly,
                                     api_result.reconstructionError,
                                     api_result.threshold)
          /\ ~api_result.isAnomaly => api_result.confidence * 10 >= Unit
    /\ dep_result.kind = "verdict" =>
          /\ dep_result.confidence =
                PrescribedConfidence(dep_result.is_anomaly,
                                     dep_result.reconstruction_error,
                                     dep_result.threshold)
          /\ ~dep_result.is_anomaly => dep_result.confidence * 10 >= Unit

\* reconstruction errors around every threshold any criticality can use
AllErrors == UNION {ErrorsFor(c) : c \in Criticalities}

\* C14: in every state of a loaded service, for the same reconstruction error
\* and the same window contents, a sample flagged with criticality normal is
\* flagged with high, one flagged with high is flagged with critical, and
\* the thresholds the three calls would use are strictly ordered
\* critical < high < normal.
C14_CriticalityIsMoreSensitive ==
    (program = "svc" /\ svc_model_loaded) =>
        \A e \in AllErrors :
            LET normal == Score(CurrentWindowState, e, "normal").result
                high == Score(CurrentWindowState, e, "high").result
                critical == Score(CurrentWindowState, e, "critical").result
            IN  /\ normal.is_anomaly => high.is_anomaly
                /\ high.is_anomaly => critical.is_anomaly
                /\ critical.threshold < high.threshold
                /\ high.threshold < normal.threshold

\* after a call, a window on which the same error tips the critical call
\* over the 15% cap (raised threshold, still flagged) while the normal call
\* stays within the band and does not flag it
C14_Witness ==
    /\ program = "svc" /\ svc_model_loaded /\ svc_calls > 0
    /\ \E e \in AllErrors :
          LET normal == Score(CurrentWindowState, e, "normal")
              critical == Score(CurrentWindowState, e, "critical")
          IN  /\ critical.band = "over" /\ normal.band = "within"
              /\ critical.result.is_anomaly /\ ~normal.result.is_anomaly

\* the counters of a statistics record agree with the history: so many
\* verdicts, so many of them anomalous
CountersAgree(stats, verdicts, anomalies, rate) ==
    /\ stats.total_samples = verdicts
    /\ stats.anomalies_detected = anomalies
    /\ stats.anomalies_detected <= stats.total_samples
    /\ rate >= 0 /\ rate <= 100 * Unit
    /\ stats.total_samples = 0 => rate = 0
    /\ (stats.last_detection_time = 0) <=> (stats.anomalies_detected = 0)

\* C15: with calls executed one after the other, in the API server and the
\* Flask deployment total_samples is the number of verdicts returned,
\* anomalies_detected the number of anomalous ones, anomalies_detected <=
\* total_samples, the derived rate is 0 when nothing was scored and within
\* [0, 100], last_detection_time is unset exactly when anomalies_detected is
\* 0, and a call that returns no verdict leaves the statistics as they were.
C15_StatisticsMatchHistory ==
    /\ [](/\ program = "api" =>
                CountersAgree(api_stats, api_log.verdicts, api_log.anomalies,
                              ApiAnomalyRate(api_stats))
          /\ program = "flask" =>
                CountersAgree(detection_stats, dep_log.verdicts, dep_log.anomalies,
                              DepAnomalyRate(detection_stats)))
    /\ [][/\ (api_log'.attempts > api_log.attempts
                 /\ api_log'.verdicts = api_log.verdicts) => api_stats' = api_stats
          /\ (dep_log'.calls > dep_log.calls
                 /\ dep_log'.verdicts = dep_log.verdicts) =>
                detection_stats' = detection_stats]_vars

\* the API server has returned two verdicts, one anomalous, and failed once
C15_Witness ==
    /\ program = "api"
    /\ api_log.attempts > api_log.verdicts
    /\ api_stats.total_samples = 2
    /\ api_stats.anomalies_detected = 1
    /\ api_stats.last_detection_time # 0

\* C16: after every successful scoring call the statistics' current threat
\* level is the threat level of the verdict that call returned (NORMAL when
\* the sample was not anomalous), in the API server and the Flask deployment.
C16_CurrentThreatLevelFollowsVerdict ==
    /\ (program = "api" /\ api_result.kind = "verdict") =>
          api_stats.current_threat_level = api_result.threatLevel
    /\ (program = "flask" /\ dep_result.kind = "verdict") =>
          detection_stats.current_threat_level = dep_result.threat_level

\* C17: train() never takes a gradient update on a row labelled anomalous:
\* whatever the anomaly rate of the file, above, at or below 0.1%, every row
\* of the training part of the split has is_anomaly = 0.
C17_TrainingSplitIsNormal ==
    (program = "train" /\ train_phase \in {"training", "saved"}) =>
        /\ train_split.train.anomalous = 0
        /\ anomalous_updates = 0

\* C18: a degenerate run is fatal.  With an empty filtered training set
\* train() fails and writes nothing; with a NaN loss in any epoch
\* save_model is never reached and models/ stays empty.
C18_DegenerateRunIsFatal ==
    program = "train" =>
        /\ (train_phase \notin {"start", "loaded", "filtered"} /\ Size(train_df) = 0) =>
              (train_phase = "failed" /\ models_dir = {})
        /\ (\E e \in 1..Len(train_losses) : train_losses[e] = "nan") =>
              (train_phase # "saved" /\ models_dir = {})

\* C19: a scoring request whose categorical value is outside the training
\* vocabulary has one of two outcomes: no verdict, with the counters and the
\* vocabularies as they were (strict), or a verdict (lenient).  As a step
\* property: a scoring attempt that yields no verdict changes neither the
\* statistics nor the label encoders, and the vocabulary of the encoders
\* never takes in a value the training data did not have.
C19_UnknownCategoryOutcome ==
    [][/\ (program = "api" /\ api_log'.attempts > api_log.attempts
              /\ api_result'.kind # "verdict") =>
             /\ api_stats' = api_stats
             /\ api_detector'.label_encoders = api_detector.label_encoders
       /\ (program = "flask" /\ dep_log'.calls > dep_log.calls
              /\ dep_result'.kind # "verdict") =>
             /\ detection_stats' = detection_stats
             /\ dep_detector'.label_encoders = dep_detector.label_encoders
       /\ api_detector'.label_encoders.classes \subseteq TrainedClasses
       /\ dep_detector'.label_encoders.classes \subseteq TrainedClasses]_vars

\* C20: a request with nominal_value = 0 is scored: deviation_from_nominal
\* counts as 0, the call returns a verdict with a finite error, and no
\* division by zero reaches the caller.
C20_ZeroNominalIsScored ==
    (program = "prod" /\ prod_log.calls > 0 /\ prod_input.nominal_value = 0
        /\ prod_result.status # 503) =>
        /\ prod_result.kind = "verdict"
        /\ prod_result.reconstructionError >= 0

\* C21: a reading with sensor_value = nominal_value = 345000 is scored
\* is_anomaly = false with threat level NORMAL, whatever the other fields
\* of the request (sensor_name, criticality) are.
C21_ZeroDeviationIsNormal ==
    (program = "prod" /\ prod_log.calls > 0 /\ prod_result.kind = "verdict"
        /\ prod_input.sensor_value = 345000 /\ prod_input.nominal_value = 345000) =>
        /\ ~prod_result.isAnomaly
        /\ prod_result.threatLevel = "NORMAL"

\* C22 as stated: at the banding boundary an anomalous sample with
\* error / threshold exactly 2.0 is labelled MEDIUM and one just above 2.0
\* (2.0001) is labelled HIGH.
C22_BoundaryAsStated ==
    /\ (api_result.kind = "verdict" /\ api_result.isAnomaly) =>
          /\ api_result.reconstructionError = 2 * api_result.threshold =>
                api_result.threatLevel = "MEDIUM"
          /\ api_result.reconstructionError = 2 * api_result.threshold + 1 =>
                api_result.threatLevel = "HIGH"
    /\ (dep_result.kind = "verdict" /\ dep_result.is_anomaly) =>
          /\ dep_result.reconstruction_error = 2 * dep_result.threshold =>
                dep_result.threat_level = "MEDIUM"
          /\ dep_result.reconstruction_error = 2 * dep_result.threshold + 1 =>
                dep_result.threat_level = "HIGH"

\* C22 amended: an anomalous sample with error / threshold exactly 2.0 is
\* labelled LOW, and one with a ratio above 2.0 and at most 5.0 (such as
\* 2.0001) is labelled MEDIUM.
C22_BoundaryAtTwo ==
    /\ (api_result.kind = "verdict" /\ api_result.isAnomaly) =>
          /\ api_result.reconstructionError = 2 * api_result.threshold =>
                api_result.threatLevel = "LOW"
          /\ (/\ api_result.reconstructionError > 2 * api_result.threshold
              /\ api_result.reconstructionError <= 5 * api_result.threshold) =>
                api_result.threatLevel = "MEDIUM"
    /\ (dep_result.kind = "verdict" /\ dep_result.is_anomaly) =>
          /\ dep_result.reconstruction_error = 2 * dep_result.threshold =>
                dep_result.threat_level = "LOW"
          /\ (/\ dep_result.reconstruction_error > 2 * dep_result.threshold
              /\ dep_result.reconstruction_error <= 5 * dep_result.threshold) =>
                dep_result.threat_level = "MEDIUM"

\* a Flask verdict exactly on the boundary r = 2, anomalous and labelled LOW
C22_Witness ==
    /\ program = "flask"
    /\ dep_result.kind = "verdict"
    /\ dep_result.is_anomaly
    /\ dep_result.reconstruction_error = 2 * dep_result.threshold
    /\ dep_result.threat_level = "LOW"

\* C23: every entry of the rolling window is the is_anomaly flag returned by
\* the call that appended it: after a verdict the newest entry of
\* recent_predictions equals the flag of that verdict.
C23_WindowHoldsIssuedDecisions ==
    (program = "svc" /\ svc_result.kind = "verdict") =>
        /\ recent_predictions # <<>>
        /\ recent_predictions[Len(recent_predictions)] = svc_result.is_anomaly

\* C24: a scoring call leaves the detector as it was: scaler, label
\* encoders, feature-column list, network and base threshold are the same
\* after the call as before it, whatever the load state of the detector.
C24_ScoringLeavesDetectorUnchanged ==
    [][/\ (program = "api" /\ api_log'.attempts > api_log.attempts) =>
             api_detector' = api_detector
       /\ (program = "flask" /\ dep_log'.calls > dep_log.calls) =>
             dep_detector' = dep_detector]_vars

\* C25: every verdict of the production server is determined by the
\* sensor_value, nominal_value, sensor_name and criticality of the request
\* alone: criticality 'critical' gives is_anomaly = true with CRITICAL,
\* criticality 'normal' gives is_anomaly = false with NORMAL whatever the
\* sensor value, the threat level is NORMAL or CRITICAL, and is_anomaly
\* holds exactly when it is CRITICAL.
C25_VerdictIsRuleBased ==
    (program = "prod" /\ prod_result.kind = "verdict") =>
        /\ prod_input.criticality = "critical" =>
              (prod_result.isAnomaly /\ prod_result.threatLevel = "CRITICAL")
        /\ prod_input.criticality = "normal" =>
              (~prod_result.isAnomaly /\ prod_result.threatLevel = "NORMAL")
        /\ prod_result.threatLevel \in {"NORMAL", "CRITICAL"}
        /\ prod_result.isAnomaly <=> (prod_result.threatLevel = "CRITICAL")
        /\ [prod_result EXCEPT !.via = "none"] =
              ProdProcessDetection(FreshProdStats, prod_input).result

\* a request of criticality 'normal' with the sensor at zero, 100% away from
\* its nominal, scored NORMAL by the endpoint of a server whose model loaded
C25_Witness ==
    /\ program = "prod"
    /\ prod_model_loaded
    /\ prod_result.kind = "verdict"
    /\ prod_result.via = "detect"
    /\ prod_input.criticality = "normal"
    /\ prod_input.sensor_value = 0
    /\ prod_input.nominal_value = 100
    /\ ~prod_result.isAnomaly
    /\ prod_log.verdicts = 2

\* C26: the effective threshold never compounds across calls: the threshold
\* of every verdict is b, 1.1 b or 0.95 b for the criticality-modulated base
\* b = 0.4 x (0.6 | 0.8 | 1.0) of that call, whatever error_cap_threshold the
\* earlier calls left behind, and the decision is taken against it.
C26_ThresholdNeverCompounds ==
    (program = "svc" /\ svc_result.kind = "verdict") =>
        /\ LastBase \in {2400, 3200, 4000}
        /\ svc_result.threshold \in
              {LastBase, (LastBase * 11) \div 10, (LastBase * 95) \div 100}
        /\ svc_result.is_anomaly <=>
              svc_result.reconstruction_error > svc_result.threshold

\* the second of two calls on a window past the minimum, of criticality
\* 'high', with the rate above 15%: its threshold is 1.1 x 0.32
C26_Witness ==
    /\ program = "svc"
    /\ svc_calls = 2
    /\ svc_result.kind = "verdict"
    /\ Len(recent_predictions) >= 21
    /\ svc_input.criticality = "high"
    /\ svc_result.threshold = 3520
    /\ error_cap_threshold = 3520

\* C27: the adjustment changes a decision in one direction only.  With the
\* trailing rate above 15% an anomalous decision may become normal but a
\* normal one never becomes anomalous; below 10% a normal one may become
\* anomalous but an anomalous one never normal; with the rate within
\* [10%, 15%] or fewer than 20 decisions the decision is not changed.  The
\* decision before the adjustment is the entry the call appended.
C27_AdjustmentIsOneDirectional ==
    (program = "svc" /\ svc_result.kind = "verdict") =>
        LET n == Len(recent_predictions)
            s == WindowAnomalies
            initial == recent_predictions[n]
            final == svc_result.is_anomaly
        IN  /\ (n >= 20 /\ s * 100 > 15 * n) => (final => initial)
            /\ (n >= 20 /\ s * 100 < 10 * n) => (initial => final)
            /\ (n < 20 \/ (s * 100 >= 10 * n /\ s * 100 <= 15 * n)) =>
                  (final <=> initial)

\* a call under a rate below 10% whose normal decision the lowered threshold
\* turned into an anomalous one
C27_Witness ==
    /\ program = "svc"
    /\ svc_result.kind = "verdict"
    /\ Len(recent_predictions) >= 20
    /\ WindowAnomalies * 100 < 10 * Len(recent_predictions)
    /\ ~recent_predictions[Len(recent_predictions)]
    /\ svc_result.is_anomaly

\* C28: through main() every invocation builds a new service and scores one
\* sample: the window never holds more than one decision, and every verdict
\* uses the unadjusted criticality-modulated base threshold, with
\* current_error_rate = 0 and error_rate_capped = false.
C28_MainScoresOnFreshService ==
    program = "main" =>
        /\ Len(recent_predictions) <= 1
        /\ svc_calls <= 1
        /\ svc_result.kind = "verdict" =>
              /\ Len(recent_predictions) = 1
              /\ svc_result.threshold = LastBase
              /\ svc_result.current_error_rate = 0
              /\ ~svc_result.error_rate_capped
              /\ svc_result.is_anomaly <=> svc_result.reconstruction_error > LastBase

\* the third invocation returned an anomalous verdict of criticality
\* 'critical' and its service holds that one decision
C28_Witness ==
    /\ program = "main"
    /\ main_runs = 3
    /\ svc_result.kind = "verdict"
    /\ svc_input.criticality = "critical"
    /\ svc_result.is_anomaly
    /\ recent_predictions = <<TRUE>>

\* every component load_model reads is in place
FullyLoaded(d) ==
    /\ d.scaler = "fitted"
    /\ d.label_encoders.fitted
    /\ d.feature_columns
    /\ d.reconstruction_threshold > 0
    /\ d.autoencoder = "trained"

\* C29: the loaded flag is true exactly when load_model ran every step to
\* completion (scaler, encoders, feature columns, threshold, weights): a
\* failure at any step leaves it false, and no step other than load_model
\* changes it.
C29_LoadedFlagMeansLoaded ==
    /\ [](/\ api_model_loaded <=> (api_phase # "constructed" /\ api_detector.autoencoder = "trained")
          /\ api_model_loaded => FullyLoaded(api_detector)
          /\ is_loaded <=> (dep_phase # "constructed" /\ dep_detector.autoencoder = "trained")
          /\ is_loaded => FullyLoaded(dep_detector))
    /\ [][/\ api_model_loaded' # api_model_loaded =>
                (api_phase = "constructed" /\ api_phase' = "loaded")
          /\ is_loaded' # is_loaded =>
                (dep_phase = "constructed" /\ dep_phase' = "loaded")
          /\ program = "svc" => svc_model_loaded' = svc_model_loaded]_vars

\* an API server whose load failed at the last step, reading the weights:
\* the flag is false, and the stream has scored a sample since
C29_Witness ==
    /\ program = "api"
    /\ api_phase = "serving"
    /\ ~api_model_loaded
    /\ api_detector.scaler = "fitted"
    /\ api_detector.autoencoder = "untrained"
    /\ api_log.attempts > 0

\* C30: under any interleaving of broadcasts in flight together and of
\* clients connecting and going away, no broadcast raises (a connection
\* whose send failed is removed once, never a second time), and a broadcast
\* that returned has sent the message to every connection that was in the
\* list for the whole of it, or has found its send failing.
C30_BroadcastNeverRaises ==
    program = "bcast" =>
        \A b \in Broadcasters :
            /\ broadcasts[b].pc # "raised"
            /\ broadcasts[b].pc = "returned" =>
                  broadcasts[b].stayed \subseteq
                      (broadcasts[b].sent \cup Range(broadcasts[b].disconnected))

====
